---- MODULE Spec2Model ----
(***************************************************************************)
(* Reservoir samplers of gameraccoon/reservoir-sampler:                    *)
(*   "U"  ReservoirSampler               (Algorithm L, runtime capacity)   *)
(*   "US" ReservoirSamplerStatic         (Algorithm L, inline buffer)      *)
(*   "W"  ReservoirSamplerWeighted       (A-ExpJ, runtime capacity)        *)
(*   "WS" ReservoirSamplerWeightedStatic (A-ExpJ, inline buffer)           *)
(*   "L"  ReservoirSamplerLinear         (one element, integer weights)    *)
(* One sampler object is modelled; its class is chosen at construction.    *)
(*                                                                         *)
(* Floating point values (RandType) are held in fixed point: the integer v *)
(* stands for v / FloatDen.  The budget of the weighted samplers can also  *)
(* be +inf, -inf or NaN, so a RandType value is a record [cls, v].         *)
(* A call of the generator yields a raw word in 0..RandMax-1; the uniform  *)
(* real distribution maps the word r to r / RandMax, in [0, 1).            *)
(***************************************************************************)
EXTENDS Integers, Sequences, FiniteSets, TLC

\* ---------------------------------------------------------------- bounds
MaxK == 3
MaxWeight == 3
MaxStream == 5
FloatDen == 3
HugeSkip == 3
RngPeriod == 4
MaxJump == 2
MaxBudget == 2
MaxBatch == 3

RandMax == FloatDen
LnScale == 1000

Kinds == {"U", "US", "W", "WS", "L"}
UniformKinds == {"U", "US"}
WeightedKinds == {"W", "WS"}
DynamicKinds == {"U", "W"}

\* a payload is identified by the position its element has in the stream
\* (the samplers never look into a payload); an element offered with a
\* weight <= 0 carries IgnoredElem
Payload == 1..MaxStream
NoElem == 0
IgnoredElem == MaxStream + 1
NoItem == [priority |-> -1, index |-> -1]
Raw == 0..(RandMax - 1)
\* the raw words of the next n calls of the generator, padded to 3 entries
Draws(n) == {[i \in 1..3 |-> IF i <= n THEN x[i] ELSE 0] : x \in [1..n -> Raw]}
NoDraws == [i \in 1..3 |-> 0]
\* float -> size_t conversion of an infinite or NaN value is undefined:
\* the builds produce 0 or a huge count
UBSkip == {0, HugeSkip}
\* weights offered to the weighted samplers (WeightType = float / int)
Weights == {-1, 0, 1, MaxWeight}
\* weights offered to the linear sampler (WeightType = unsigned int)
LinearWeights == {0, 1, MaxWeight}
\* mWeightSum += weight wraps (unsigned WeightType); the width is taken as
\* 30 bits to stay inside TLC's integers, no sum of the model reaches it
WeightModulus == 2^30

Min(a, b) == IF a < b THEN a ELSE b

RECURSIVE Power(_, _)
Power(b, n) == IF n = 0 THEN 1 ELSE b * Power(b, n - 1)

\* ------------------------------------------------- RandType arithmetic
Fin(v) == [cls |-> "fin", v |-> v]
PosInf == [cls |-> "pinf", v |-> 0]
NegInf == [cls |-> "ninf", v |-> 0]
NaN == [cls |-> "nan", v |-> 0]
Zero == Fin(0)

\* a subtraction that takes the weight in grid units
FSubWeight_Unscaled(x, weight) ==
    IF x.cls = "fin" THEN Fin(x.v - weight) ELSE x

\* x - static_cast<RandType>(weight)
FSubWeight(x, weight) ==
    IF x.cls = "fin" THEN Fin(x.v - weight * FloatDen) ELSE x

\* x <= 0
FLeqZero(x) == \/ x.cls = "ninf"
               \/ x.cls = "fin" /\ x.v <= 0

\* std::pow(u, 1/w) for u in [0,1] and w >= 1, rounded to the nearest
\* representable value: the largest m with (m - 1/2)^w <= u
PowInv(u, w) ==
    LET target == Power(2, w) * u * Power(FloatDen, w - 1)
        ok == {m \in 0..FloatDen : m = 0 \/ Power(2 * m - 1, w) <= target}
    IN CHOOSE m \in ok : \A o \in ok : o <= m

\* std::pow(x, w) for x in [0,1] and integer w >= 1, rounded to nearest
PowInt(x, w) ==
    (2 * Power(x, w) + Power(FloatDen, w - 1)) \div (2 * Power(FloatDen, w - 1))

\* -LnScale * ln(x) for x in (0,1], from the series of 2*atanh((1-x)/(1+x))
LnMag(x) ==
    LET a == FloatDen - x
        b == FloatDen + x
    IN (2 * LnScale * a) \div b
       + (2 * LnScale * Power(a, 3)) \div (3 * Power(b, 3))
       + (2 * LnScale * Power(a, 5)) \div (5 * Power(b, 5))

\* std::log(u) / std::log(x) for a uniform draw u in [0,1) and x in [0,1]:
\* log(0) = -inf, log(1) = +0
LogRatio(u, x) ==
    IF x = FloatDen THEN NegInf
    ELSE IF x = 0 THEN (IF u = 0 THEN NaN ELSE Zero)
    ELSE IF u = 0 THEN PosInf
    ELSE Fin((2 * FloatDen * LnMag(u) + LnMag(x)) \div (2 * LnMag(x)))

\* std::uniform_real_distribution<RandType>(t, 1)(mRand) = t + (1 - t) * u
UniformFrom(t, raw) ==
    t + (2 * (FloatDen - t) * raw + RandMax) \div (2 * RandMax)

\* x * y rounded to nearest
FMul(x, y) == (2 * x * y + FloatDen) \div (2 * FloatDen)

\* a generator that moves one position whatever the number of calls
Advance_OneCall(pos, n) == (pos + 1) % RngPeriod

\* position of the generator after n more calls
Advance(pos, n) == (pos + n) % RngPeriod

\* ------------------------------------------------------ std heap calls
\* a comparator that orders the other way
HeapComp_Less(a, b) == a.priority < b.priority

\* the comparator of every heap call: a.priority > b.priority
HeapComp(a, b) == a.priority > b.priority

\* std::__push_heap: move the hole up while the parent compares before value
RECURSIVE PushHeapLoop(_, _, _, _)
PushHeapLoop(h, hole, top, value) ==
    LET parent == (hole - 1) \div 2 IN
    IF hole > top /\ HeapComp(h[parent], value)
    THEN PushHeapLoop([h EXCEPT ![hole] = h[parent]], parent, top, value)
    ELSE [h EXCEPT ![hole] = value]

\* std::push_heap(h, h + len, comp): h[len-1] is the new entry
push_heap(h, len) ==
    IF len <= 0 THEN h ELSE PushHeapLoop(h, len - 1, 0, h[len - 1])

\* std::__adjust_heap: move the hole down to a leaf, then push value up
RECURSIVE AdjustHeapLoop(_, _, _, _, _)
AdjustHeapLoop(h, hole, second, len, value) ==
    IF second < (len - 1) \div 2
    THEN LET right == 2 * (second + 1)
             child == IF HeapComp(h[right], h[right - 1]) THEN right - 1 ELSE right
         IN AdjustHeapLoop([h EXCEPT ![hole] = h[child]], child, child, len, value)
    ELSE IF len % 2 = 0 /\ second = (len - 2) \div 2
         THEN LET child == 2 * (second + 1) - 1
              IN PushHeapLoop([h EXCEPT ![hole] = h[child]], child, 0, value)
         ELSE PushHeapLoop(h, hole, 0, value)

\* std::pop_heap(h, h + len, comp): the root goes to h[len-1]
pop_heap(h, len) ==
    IF len <= 1 THEN h
    ELSE AdjustHeapLoop([h EXCEPT ![len - 1] = h[0]], 0, 0, len - 1, h[len - 1])

\* --------------------------------------------------- the sampler object
\* state after construction: ReservoirSampler(samplesCount, rand) etc.
\* The dynamic classes assert(samplesCount > 0); the static classes
\* static_assert(SamplesCount > 0) and are never built with 0.
\* oob records a read or write outside the buffer (it is not part of the
\* object: no operation of the current classes sets it).
Construct(kind, samplesCount, rand) ==
    [kind |-> kind,
     mSamplesCount |-> samplesCount,
     mIndexesToJumpOver |-> 0,
     mWeightJumpOver |-> Zero,
     mRand |-> rand,
     mFilledElementsCount |-> 0,
     mElements |-> [i \in 0..(samplesCount - 1) |-> NoElem],
     mPriorityHeap |-> [i \in 0..(samplesCount - 1) |-> NoItem],
     \* the static samplers hold the buffer inline: never null
     mData |-> (kind \notin DynamicKinds),
     mWeightSum |-> 0,
     mSelectedElement |-> [has |-> FALSE, val |-> NoElem],
     aborted |-> (kind \in DynamicKinds /\ samplesCount = 0),
     oob |-> FALSE]

\* a failed assert halts the program
Abort(s) == [s EXCEPT !.aborted = TRUE]

\* ReservoirSampler::allocateData, ReservoirSamplerWeighted::allocateData
allocateData(s) ==
    IF s.mData THEN Abort(s) ELSE [s EXCEPT !.mData = TRUE]

\* allocateData when std::aligned_alloc may return a null pointer (ok FALSE):
\* mData, mElements and mPriorityHeap take the returned pointer unexamined
allocateDataGiven(s, ok) ==
    IF s.mData THEN Abort(s) ELSE [s EXCEPT !.mData = ok]

\* a destroy loop that stops one slot early
DestroyFirst_SkipLast(elements, n) ==
    [i \in DOMAIN elements |-> IF i < n - 1 THEN NoElem ELSE elements[i]]

\* mElements[i].~T() for i < n: the slots below n hold no payload any more
DestroyFirst(elements, n) ==
    [i \in DOMAIN elements |-> IF i < n THEN NoElem ELSE elements[i]]

\* reset that leaves the skip counter as it was
reset_KeepSkip(s) ==
    [s EXCEPT !.mElements = DestroyFirst(s.mElements, s.mFilledElementsCount),
              !.mPriorityHeap = [i \in DOMAIN s.mPriorityHeap |-> NoItem],
              !.mWeightJumpOver = Zero,
              !.mFilledElementsCount = 0]

\* reset of the four reservoir samplers: the payloads of the slots below
\* mFilledElementsCount are destroyed; the heap entries become dead storage
\* (held as NoItem: no operation reads an entry at or above
\* mFilledElementsCount)
reset(s) ==
    [s EXCEPT !.mElements = DestroyFirst(s.mElements, s.mFilledElementsCount),
              !.mPriorityHeap = [i \in DOMAIN s.mPriorityHeap |-> NoItem],
              !.mIndexesToJumpOver = 0,
              !.mWeightJumpOver = Zero,
              !.mFilledElementsCount = 0]

\* getResult: ResultSpan(mElements, mFilledElementsCount), as the sequence
\* of payloads the span exposes
getResult(s) == [i \in 1..s.mFilledElementsCount |-> s.mElements[i - 1]]

\* a getResult that hands the elements out and empties the sampler
AfterGetResult_Consuming(s) == reset(s)

\* the object after getResult() const, which has the one statement
\* return ResultSpan(mElements, mFilledElementsCount)
AfterGetResult(s) == s

\* consumeResult that moves the payloads out and forgets the reset()
consumeResult_NoReset(s) ==
    [ret |-> [i \in 1..s.mFilledElementsCount |-> s.mElements[i - 1]],
     st |-> s]

\* consumeResult: move the payloads out, then reset()
consumeResult(s) ==
    [ret |-> [i \in 1..s.mFilledElementsCount |-> s.mElements[i - 1]],
     st |-> reset(s)]

\* ------------------------------------- Algorithm L (ReservoirSampler[Static])
\* a peek that also answers true for the last element to skip
willNextElementBeConsidered_AtMostOne(s) == s.mIndexesToJumpOver <= 1

willNextElementBeConsidered(s) == s.mIndexesToJumpOver = 0

skipNextElement(s) ==
    IF willNextElementBeConsidered(s) THEN Abort(s)
    ELSE [s EXCEPT !.mIndexesToJumpOver = @ - 1]

\* getNextSkippedElementsCount that counts the element just sampled too
getNextSkippedElementsCount_PlusOne(s) == s.mIndexesToJumpOver + 1

getNextSkippedElementsCount(s) == s.mIndexesToJumpOver

\* jumpAhead that subtracts before it checks
jumpAhead_SubtractFirst(s, elementsToJumpOver) ==
    LET t == [s EXCEPT !.mIndexesToJumpOver = @ - elementsToJumpOver] IN
    IF ~(elementsToJumpOver <= s.mIndexesToJumpOver) THEN Abort(t) ELSE t

jumpAhead(s, elementsToJumpOver) ==
    IF ~(elementsToJumpOver <= s.mIndexesToJumpOver) THEN Abort(s)
    ELSE [s EXCEPT !.mIndexesToJumpOver = @ - elementsToJumpOver]

\* insertInitial that forgets ++mFilledElementsCount
insertInitial_NoCount(s, e) ==
    [s EXCEPT !.mElements[s.mFilledElementsCount] = e]

insertInitial(s, e) ==
    [s EXCEPT !.mElements[s.mFilledElementsCount] = e,
              !.mFilledElementsCount = @ + 1]

\* a replacement that writes the slot after the drawn one
replaceElement_NextSlot(s, e, raw) ==
    [s EXCEPT !.mElements[(raw + 1) % s.mSamplesCount] = e,
              !.mRand = Advance(@, 1)]

\* pos = mRand() % mSamplesCount, then assign or destroy-and-construct
replaceElement(s, e, raw) ==
    [s EXCEPT !.mElements[raw % s.mSamplesCount] = e,
              !.mRand = Advance(@, 1)]

\* static_cast<size_t>(std::floor(std::log(u) / std::log(1 - W)))
\* ub is the outcome of the conversion when the quotient is not finite
SkipCount(u, W, ub) ==
    LET c == FloatDen - W IN
    IF c = 0 THEN (IF u = 0 THEN ub ELSE 0)
    ELSE IF c = FloatDen \/ u = 0 THEN ub
    ELSE LnMag(u) \div LnMag(c)

ReservoirSampler_emplace(s0, e, d, ub) ==
    LET s == IF s0.mData THEN s0 ELSE allocateData(s0) IN
    IF s.mFilledElementsCount < s.mSamplesCount
    THEN LET a == insertInitial(s, e) IN
         IF a.mFilledElementsCount = a.mSamplesCount
         THEN LET W == PowInv(d[1], a.mSamplesCount) IN
              [a EXCEPT !.mWeightJumpOver = Fin(W),
                        !.mIndexesToJumpOver = SkipCount(d[2], W, ub),
                        !.mRand = Advance(@, 2)]
         ELSE a
    ELSE IF s.mIndexesToJumpOver = 0
         THEN LET a == replaceElement(s, e, d[1])
                  W == FMul(a.mWeightJumpOver.v, PowInv(d[2], a.mSamplesCount))
              IN [a EXCEPT !.mWeightJumpOver = Fin(W),
                           !.mIndexesToJumpOver = @ + SkipCount(d[3], W, ub),
                           !.mRand = Advance(@, 2)]
         ELSE [s EXCEPT !.mIndexesToJumpOver = @ - 1]

\* ReservoirSampler::emplace when the lazy allocation may fail: with mData
\* still null after allocateData, insertInitial and replaceElement run their
\* placement new at mElements + i with mElements null
ReservoirSampler_emplaceGiven(s0, e, d, ub, ok) ==
    LET s == IF s0.mData THEN s0 ELSE allocateDataGiven(s0, ok) IN
    IF s.mData THEN ReservoirSampler_emplace(s, e, d, ub)
    ELSE IF s.mFilledElementsCount < s.mSamplesCount
         THEN [s EXCEPT !.oob = TRUE]
         ELSE IF s.mIndexesToJumpOver = 0
              THEN [s EXCEPT !.oob = TRUE]
              ELSE [s EXCEPT !.mIndexesToJumpOver = @ - 1]

\* --------------------------- Algorithm A-ExpJ (ReservoirSamplerWeighted[Static])
\* (mWeightJumpOver - weight) <= 0
willNextElementBeConsideredW(s, weight) ==
    FLeqZero(FSubWeight(s.mWeightJumpOver, weight))

skipNextElementW(s, weight) ==
    IF willNextElementBeConsideredW(s, weight) THEN Abort(s)
    ELSE [s EXCEPT !.mWeightJumpOver = FSubWeight(@, weight)]

\* a heap range that leaves the new entry out
InsertSortedRange_WithoutNew(filled) == filled

\* heap range handed to push_heap by insertSorted
InsertSortedRange(filled) == filled + 1

\* insertSorted that constructs the payload in the slot the heap root names
insertSorted_RootSlot(s, r, e) ==
    LET n == s.mFilledElementsCount
        h == [s.mPriorityHeap EXCEPT ![n] = [priority |-> r, index |-> n]]
        g == push_heap(h, InsertSortedRange(n))
    IN [s EXCEPT !.mPriorityHeap = g,
                 !.mElements[g[0].index] = e,
                 !.mFilledElementsCount = n + 1]

insertSorted(s, r, e) ==
    LET n == s.mFilledElementsCount
        h == [s.mPriorityHeap EXCEPT ![n] = [priority |-> r, index |-> n]]
    IN [s EXCEPT !.mPriorityHeap = push_heap(h, InsertSortedRange(n)),
                 !.mElements[n] = e,
                 !.mFilledElementsCount = n + 1]

\* insertSortedRemoveFirst that takes the index of the new root, not of the
\* entry pop_heap moved to the end
insertSortedRemoveFirst_RootIndex(s, r, e) ==
    LET k == s.mSamplesCount
        popped == pop_heap(s.mPriorityHeap, k)
        oldElementIdx == popped[0].index
        h == [popped EXCEPT ![k - 1] = [priority |-> r, index |-> oldElementIdx]]
    IN [s EXCEPT !.mPriorityHeap = push_heap(h, k),
                 !.mElements[oldElementIdx] = e]

insertSortedRemoveFirst(s, r, e) ==
    LET k == s.mSamplesCount
        popped == pop_heap(s.mPriorityHeap, k)
        oldElementIdx == popped[k - 1].index
        h == [popped EXCEPT ![k - 1] = [priority |-> r, index |-> oldElementIdx]]
    IN [s EXCEPT !.mPriorityHeap = push_heap(h, k),
                 !.mElements[oldElementIdx] = e]

ReservoirSamplerWeighted_emplace(s0, weight, e, d) ==
    LET s == IF s0.mData THEN s0 ELSE allocateData(s0) IN
    IF weight > 0
    THEN IF s.mFilledElementsCount < s.mSamplesCount
         THEN LET r == PowInv(d[1], weight)
                  a == [insertSorted(s, r, e) EXCEPT !.mRand = Advance(@, 1)]
              IN IF a.mFilledElementsCount = a.mSamplesCount
                 THEN [a EXCEPT !.mWeightJumpOver =
                                    LogRatio(d[2], a.mPriorityHeap[0].priority),
                                !.mRand = Advance(@, 1)]
                 ELSE a
         ELSE LET b == [s EXCEPT !.mWeightJumpOver = FSubWeight(@, weight)] IN
              IF FLeqZero(b.mWeightJumpOver)
              THEN LET t == PowInt(b.mPriorityHeap[0].priority, weight)
                       r == PowInv(UniformFrom(t, d[1]), weight)
                       c == insertSortedRemoveFirst(b, r, e)
                   IN [c EXCEPT !.mWeightJumpOver =
                                    LogRatio(d[2], c.mPriorityHeap[0].priority),
                                !.mRand = Advance(@, 2)]
              ELSE b
    ELSE s

\* ReservoirSamplerWeighted::emplace when the lazy allocation may fail: with
\* mData still null, insertSorted writes mPriorityHeap[n] and the replace
\* branch reads mPriorityHeap[0] through the null pointer
ReservoirSamplerWeighted_emplaceGiven(s0, weight, e, d, ok) ==
    LET s == IF s0.mData THEN s0 ELSE allocateDataGiven(s0, ok) IN
    IF s.mData THEN ReservoirSamplerWeighted_emplace(s, weight, e, d)
    ELSE IF weight > 0
         THEN IF s.mFilledElementsCount < s.mSamplesCount
              THEN [s EXCEPT !.oob = TRUE]
              ELSE LET b == [s EXCEPT !.mWeightJumpOver = FSubWeight(@, weight)] IN
                   IF FLeqZero(b.mWeightJumpOver)
                   THEN [b EXCEPT !.oob = TRUE]
                   ELSE b
         ELSE s

\* ------------------------------------------------- the static classes
\* the step of type float in units of RandType's grid: 1 when RandType is
\* float (the default template argument), 2 when RandType is wider
FloatSteps == {1, 2}
FloatStep == 1

\* conversion of a RandType value in [0, 1] to float, rounded to nearest
NarrowToFloat(u, step) == Min(FloatDen, ((2 * u + step) \div (2 * step)) * step)

\* ReservoirSamplerStatic::emplace: the buffer is a member, SamplesCount a
\* template argument
ReservoirSamplerStatic_emplace(s, e, d, ub) ==
    IF s.mFilledElementsCount < s.mSamplesCount
    THEN LET a == insertInitial(s, e) IN
         IF a.mFilledElementsCount = a.mSamplesCount
         THEN LET W == PowInv(d[1], a.mSamplesCount) IN
              [a EXCEPT !.mWeightJumpOver = Fin(W),
                        !.mIndexesToJumpOver = SkipCount(d[2], W, ub),
                        !.mRand = Advance(@, 2)]
         ELSE a
    ELSE IF s.mIndexesToJumpOver = 0
         THEN LET a == replaceElement(s, e, d[1])
                  W == FMul(a.mWeightJumpOver.v, PowInv(d[2], a.mSamplesCount))
              IN [a EXCEPT !.mWeightJumpOver = Fin(W),
                           !.mIndexesToJumpOver = @ + SkipCount(d[3], W, ub),
                           !.mRand = Advance(@, 2)]
         ELSE [s EXCEPT !.mIndexesToJumpOver = @ - 1]

\* ReservoirSamplerWeightedStatic::emplace: while filling, the draw goes
\* through  const float rand = mUniformDist(mRand)  before std::pow
ReservoirSamplerWeightedStatic_emplace(s, weight, e, d, step) ==
    IF weight > 0
    THEN IF s.mFilledElementsCount < s.mSamplesCount
         THEN LET rand == NarrowToFloat(d[1], step)
                  r == PowInv(rand, weight)
                  a == [insertSorted(s, r, e) EXCEPT !.mRand = Advance(@, 1)]
              IN IF a.mFilledElementsCount = a.mSamplesCount
                 THEN [a EXCEPT !.mWeightJumpOver =
                                    LogRatio(d[2], a.mPriorityHeap[0].priority),
                                !.mRand = Advance(@, 1)]
                 ELSE a
         ELSE LET b == [s EXCEPT !.mWeightJumpOver = FSubWeight(@, weight)] IN
              IF FLeqZero(b.mWeightJumpOver)
              THEN LET t == PowInt(b.mPriorityHeap[0].priority, weight)
                       r == PowInv(UniformFrom(t, d[1]), weight)
                       c == insertSortedRemoveFirst(b, r, e)
                   IN [c EXCEPT !.mWeightJumpOver =
                                    LogRatio(d[2], c.mPriorityHeap[0].priority),
                                !.mRand = Advance(@, 2)]
              ELSE b
    ELSE s

\* ------------------- a sample call in which T's constructor or assignment
\* throws; the exception leaves the function at the throwing statement
\* insertInitial: the placement new throws, ++mFilledElementsCount is not
\* reached and the slot holds no payload
insertInitial_Throwing(s) == s

\* replaceElement: pos is drawn first.  For an assignable T the assignment
\* (or the construction of the temporary) throws and the slot keeps a
\* payload; otherwise mElements[pos].~T() has run when the placement new
\* throws
replaceElement_Throwing(s, raw, assignable) ==
    [s EXCEPT !.mElements[raw % s.mSamplesCount] = IF assignable THEN @ ELSE NoElem,
              !.mRand = Advance(@, 1)]

\* ReservoirSampler[Static]::emplace up to the throwing statement
ReservoirSampler_emplaceThrowing(s0, d, assignable) ==
    LET s == IF s0.mData THEN s0 ELSE allocateData(s0) IN
    IF s.mFilledElementsCount < s.mSamplesCount
    THEN insertInitial_Throwing(s)
    ELSE IF s.mIndexesToJumpOver = 0
         THEN replaceElement_Throwing(s, d[1], assignable)
         ELSE [s EXCEPT !.mIndexesToJumpOver = @ - 1]

\* insertSorted: the heap entry is written and pushed before the placement
\* new throws
insertSorted_Throwing(s, r) ==
    LET n == s.mFilledElementsCount
        h == [s.mPriorityHeap EXCEPT ![n] = [priority |-> r, index |-> n]]
    IN [s EXCEPT !.mPriorityHeap = push_heap(h, InsertSortedRange(n))]

\* insertSortedRemoveFirst: the heap has the new entry before the payload is
\* assigned or destroyed and constructed
insertSortedRemoveFirst_Throwing(s, r, assignable) ==
    LET k == s.mSamplesCount
        popped == pop_heap(s.mPriorityHeap, k)
        oldElementIdx == popped[k - 1].index
        h == [popped EXCEPT ![k - 1] = [priority |-> r, index |-> oldElementIdx]]
    IN [s EXCEPT !.mPriorityHeap = push_heap(h, k),
                 !.mElements[oldElementIdx] = IF assignable THEN @ ELSE NoElem]

\* ReservoirSamplerWeighted[Static]::emplace up to the throwing statement
ReservoirSamplerWeighted_emplaceThrowing(s0, weight, d, assignable) ==
    LET s == IF s0.mData THEN s0 ELSE allocateData(s0) IN
    IF weight > 0
    THEN IF s.mFilledElementsCount < s.mSamplesCount
         THEN LET r == PowInv(d[1], weight)
              IN [insertSorted_Throwing(s, r) EXCEPT !.mRand = Advance(@, 1)]
         ELSE LET b == [s EXCEPT !.mWeightJumpOver = FSubWeight(@, weight)] IN
              IF FLeqZero(b.mWeightJumpOver)
              THEN LET t == PowInt(b.mPriorityHeap[0].priority, weight)
                       r == PowInv(UniformFrom(t, d[1]), weight)
                   IN [insertSortedRemoveFirst_Throwing(b, r, assignable)
                         EXCEPT !.mRand = Advance(@, 1)]
              ELSE b
    ELSE s

\* ------------- ReservoirSamplerWeighted, first revision (src/unnamed/part_005)
\* the constructor has no assert on samplesCount
ConstructOld(samplesCount, rand) ==
    [Construct("WOld", samplesCount, rand) EXCEPT !.mData = FALSE, !.aborted = FALSE]

\* bool willNextBeConsidered(WeightType weight) const
willNextBeConsidered(s, weight) ==
    FLeqZero(FSubWeight(s.mWeightJumpOver, weight))

addDummyElement(s, weight) ==
    IF willNextBeConsidered(s, weight) THEN Abort(s)
    ELSE [s EXCEPT !.mWeightJumpOver = FSubWeight(@, weight)]

\* the first revision hands push_heap the range [heap, heap + count), which
\* leaves the entry just written out
insertSortedOld(s, r, e) ==
    LET n == s.mFilledElementsCount
        h == [s.mPriorityHeap EXCEPT ![n] = [priority |-> r, index |-> n]]
    IN [s EXCEPT !.mPriorityHeap = push_heap(h, n),
                 !.mElements[n] = e,
                 !.mFilledElementsCount = n + 1]

\* emplaceElement: with mSamplesCount = 0 the replace branch reads
\* mPriorityHeap[0] of a buffer that has no entry
emplaceElement(s0, weight, e, d) ==
    LET s == IF s0.mData THEN s0 ELSE allocateData(s0) IN
    IF weight > 0
    THEN IF s.mFilledElementsCount < s.mSamplesCount
         THEN LET r == PowInv(d[1], weight)
                  a == [insertSortedOld(s, r, e) EXCEPT !.mRand = Advance(@, 1)]
              IN IF a.mFilledElementsCount = a.mSamplesCount
                 THEN [a EXCEPT !.mWeightJumpOver =
                                    LogRatio(d[2], a.mPriorityHeap[0].priority),
                                !.mRand = Advance(@, 1)]
                 ELSE a
         ELSE LET b == [s EXCEPT !.mWeightJumpOver = FSubWeight(@, weight)] IN
              IF FLeqZero(b.mWeightJumpOver)
              THEN IF b.mSamplesCount = 0 THEN [b EXCEPT !.oob = TRUE]
                   ELSE LET t == PowInt(b.mPriorityHeap[0].priority, weight)
                            r == PowInv(UniformFrom(t, d[1]), weight)
                            c == insertSortedRemoveFirst(b, r, e)
                        IN [c EXCEPT !.mWeightJumpOver =
                                         LogRatio(d[2], c.mPriorityHeap[0].priority),
                                     !.mRand = Advance(@, 2)]
              ELSE b
    ELSE s

\* ------------------------------------------------ ReservoirSamplerLinear
\* getResult: const std::optional<T>&
getResultL(s) == s.mSelectedElement

\* consumeResult that leaves the weight sum as it was
consumeResultL_KeepSum(s) ==
    [ret |-> s.mSelectedElement, st |-> s]

\* mWeightSum = {}; return std::move(mSelectedElement): the moved-from
\* optional stays engaged, holding the moved-from payload (for a trivially
\* copyable T the same value)
consumeResultL(s) ==
    [ret |-> s.mSelectedElement,
     st |-> [s EXCEPT !.mWeightSum = 0]]

\* reset of the linear sampler that keeps the selected element
resetL_KeepElement(s) ==
    [s EXCEPT !.mWeightSum = 0]

resetL(s) ==
    [s EXCEPT !.mWeightSum = 0,
              !.mSelectedElement = [has |-> FALSE, val |-> NoElem]]

\* emplace that also replaces when the residue equals the weight
ReservoirSamplerLinear_emplace_Leq(s, weight, e, raw) ==
    IF weight <= 0 THEN s
    ELSE LET a == [s EXCEPT !.mWeightSum = (@ + weight) % WeightModulus] IN
         IF ~a.mSelectedElement.has
         THEN [a EXCEPT !.mSelectedElement = [has |-> TRUE, val |-> e]]
         ELSE IF a.mWeightSum = 0 THEN Abort(a)
         ELSE LET b == [a EXCEPT !.mRand = Advance(@, 1)] IN
              IF (raw % a.mWeightSum) <= weight
              THEN [b EXCEPT !.mSelectedElement = [has |-> TRUE, val |-> e]]
              ELSE b

ReservoirSamplerLinear_emplace(s, weight, e, raw) ==
    IF weight <= 0 THEN s
    ELSE LET a == [s EXCEPT !.mWeightSum = (@ + weight) % WeightModulus] IN
         IF ~a.mSelectedElement.has
         THEN [a EXCEPT !.mSelectedElement = [has |-> TRUE, val |-> e]]
         ELSE IF a.mWeightSum = 0 THEN Abort(a)   \* modulo by zero
         ELSE LET b == [a EXCEPT !.mRand = Advance(@, 1)] IN
              IF (raw % a.mWeightSum) < weight
              THEN [b EXCEPT !.mSelectedElement = [has |-> TRUE, val |-> e]]
              ELSE b

\* ------------------------------------------------------- copy and move
\* new (mElements + i) T(other.mElements[i]) for i < other.mFilledElementsCount
\* (also with std::move(other.mElements[i]): the payload goes to slot i)
ConstructFrom(elements, other) ==
    [i \in DOMAIN elements |->
        IF i < other.mFilledElementsCount THEN other.mElements[i] ELSE elements[i]]

\* std::memcpy(mPriorityHeap, other.mPriorityHeap, sizeof(HeapItem) * filled)
MemcpyHeap(heap, other) ==
    [i \in DOMAIN heap |->
        IF i < other.mFilledElementsCount THEN other.mPriorityHeap[i] ELSE heap[i]]

\* copy constructors; ReservoirSamplerLinear's is defaulted
CopyConstruct(other) ==
    IF other.kind = "L" THEN other
    ELSE LET fresh == Construct(other.kind, other.mSamplesCount, other.mRand)
             a == [fresh EXCEPT !.mIndexesToJumpOver = other.mIndexesToJumpOver,
                                !.mWeightJumpOver = other.mWeightJumpOver,
                                !.mFilledElementsCount = other.mFilledElementsCount,
                                !.aborted = FALSE]
             \* the dynamic classes allocate and copy only if (other.mData)
             b == IF a.kind \in DynamicKinds
                  THEN (IF other.mData THEN allocateData(a) ELSE a)
                  ELSE a
         IN IF ~b.mData THEN b
            ELSE [b EXCEPT !.mPriorityHeap = IF b.kind \in WeightedKinds
                                             THEN MemcpyHeap(@, other) ELSE @,
                           !.mElements = ConstructFrom(@, other)]

\* the classes that provide operator=
Assignable == {"US", "WS", "L"}

\* operator=(const&) of the static classes: reset(), then the skip state,
\* the count, the heap and the elements are taken from other;
\* ReservoirSamplerLinear's is defaulted
CopyAssign(self, other) ==
    IF self.kind = "L" THEN other
    ELSE LET a == reset(self)
         IN [a EXCEPT !.mIndexesToJumpOver = other.mIndexesToJumpOver,
                      !.mWeightJumpOver = other.mWeightJumpOver,
                      !.mFilledElementsCount = other.mFilledElementsCount,
                      !.mPriorityHeap = IF a.kind \in WeightedKinds
                                        THEN MemcpyHeap(@, other) ELSE @,
                      !.mElements = ConstructFrom(@, other)]

\* a moved-from object that keeps its skip counter
MovedFromDynamic_KeepSkip(other) ==
    [other EXCEPT !.mWeightJumpOver = Zero,
                  !.mFilledElementsCount = 0,
                  !.mElements = [i \in DOMAIN @ |-> NoElem],
                  !.mPriorityHeap = [i \in DOMAIN @ |-> NoItem],
                  !.mData = FALSE]

\* the moved-from object of the dynamic classes: counters zeroed, pointers null
MovedFromDynamic(other) ==
    [other EXCEPT !.mIndexesToJumpOver = 0,
                  !.mWeightJumpOver = Zero,
                  !.mFilledElementsCount = 0,
                  !.mElements = [i \in DOMAIN @ |-> NoElem],
                  !.mPriorityHeap = [i \in DOMAIN @ |-> NoItem],
                  !.mData = FALSE]

\* a move constructor that forgets to empty the source
MoveConstruct_KeepSource(other) ==
    [dst |-> other, src |-> other]

\* move constructors: the dynamic classes take the buffer over, the static
\* classes move-construct every payload and other.reset(), the linear
\* sampler moves the optional and other.reset()
MoveConstruct(other) ==
    IF other.kind \in DynamicKinds
    THEN [dst |-> other, src |-> MovedFromDynamic(other)]
    ELSE IF other.kind = "L"
    THEN [dst |-> other, src |-> resetL(other)]
    ELSE LET fresh == Construct(other.kind, other.mSamplesCount, other.mRand)
         IN [dst |-> [fresh EXCEPT
                         !.mIndexesToJumpOver = other.mIndexesToJumpOver,
                         !.mWeightJumpOver = other.mWeightJumpOver,
                         !.mFilledElementsCount = other.mFilledElementsCount,
                         !.mPriorityHeap = IF fresh.kind \in WeightedKinds
                                           THEN MemcpyHeap(@, other) ELSE @,
                         !.mElements = ConstructFrom(@, other)],
             src |-> reset(other)]

\* operator=(&&) of the static classes and of the linear sampler: mRand is
\* not assigned
MoveAssign(self, other) ==
    IF self.kind = "L"
    THEN [dst |-> [self EXCEPT !.mWeightSum = other.mWeightSum,
                               !.mSelectedElement = other.mSelectedElement],
          src |-> resetL(other)]
    ELSE LET a == reset(self)
         IN [dst |-> [a EXCEPT
                         !.mIndexesToJumpOver = other.mIndexesToJumpOver,
                         !.mWeightJumpOver = other.mWeightJumpOver,
                         !.mFilledElementsCount = other.mFilledElementsCount,
                         !.mPriorityHeap = IF a.kind \in WeightedKinds
                                           THEN MemcpyHeap(@, other) ELSE @,
                         !.mElements = ConstructFrom(@, other)],
             src |-> reset(other)]

\* s = s: other is the object itself, so after the reset() that opens
\* operator=(const&) of the static classes every read of other sees the
\* emptied object; the defaulted operator= of the linear sampler assigns each
\* member to itself
CopyAssignSelf(self) ==
    IF self.kind = "L" THEN CopyAssign(self, self)
    ELSE CopyAssign(self, reset(self))

\* s = std::move(s): as above, and the closing other.reset() empties the
\* object once more; the linear sampler assigns its members to themselves
\* and then runs other.reset() on itself
MoveAssignSelf(self) ==
    IF self.kind = "L" THEN resetL(MoveAssign(self, self).dst)
    ELSE reset(MoveAssign(self, reset(self)).dst)

\* ------------------------------------------------------------ the state
VARIABLES
    kind,                  \* class of the sampler object
    mSamplesCount,         \* capacity k (SamplesCount of the static classes)
    mIndexesToJumpOver,    \* Algorithm L skip counter
    mWeightJumpOver,       \* Algorithm L: W; A-ExpJ: the weight budget
    mRand,                 \* position of the generator
    mFilledElementsCount,
    mElements,             \* slot -> payload, NoElem when not constructed
    mPriorityHeap,         \* A-ExpJ heap entries
    mData,                 \* TRUE when the buffer exists
    mWeightSum,            \* linear sampler
    mSelectedElement,      \* linear sampler: std::optional<T>
    aborted,               \* an assert has failed
    nPositive,             \* stream elements with weight > 0 passed since the last reset / consume
    sampledOnly,           \* only sample calls have reached the sampler since construction
    weightOffered          \* linear sampler: sum of the weights > 0 offered since the last reset / consume

samplerVars == <<kind, mSamplesCount, mIndexesToJumpOver, mWeightJumpOver, mRand,
                 mFilledElementsCount, mElements, mPriorityHeap, mData,
                 mWeightSum, mSelectedElement, aborted>>
ghostVars == <<nPositive, sampledOnly, weightOffered>>
vars == <<samplerVars, ghostVars>>

\* the sampler object as a record
Self ==
    [kind |-> kind,
     mSamplesCount |-> mSamplesCount,
     mIndexesToJumpOver |-> mIndexesToJumpOver,
     mWeightJumpOver |-> mWeightJumpOver,
     mRand |-> mRand,
     mFilledElementsCount |-> mFilledElementsCount,
     mElements |-> mElements,
     mPriorityHeap |-> mPriorityHeap,
     mData |-> mData,
     mWeightSum |-> mWeightSum,
     mSelectedElement |-> mSelectedElement,
     aborted |-> aborted,
     oob |-> FALSE]

\* the object's fields take the values of record t
Commit(t) ==
    /\ kind' = t.kind
    /\ mSamplesCount' = t.mSamplesCount
    /\ mIndexesToJumpOver' = t.mIndexesToJumpOver
    /\ mWeightJumpOver' = t.mWeightJumpOver
    /\ mRand' = t.mRand
    /\ mFilledElementsCount' = t.mFilledElementsCount
    /\ mElements' = t.mElements
    /\ mPriorityHeap' = t.mPriorityHeap
    /\ mData' = t.mData
    /\ mWeightSum' = t.mWeightSum
    /\ mSelectedElement' = t.mSelectedElement
    /\ aborted' = t.aborted

\* number of generator calls a deterministic call makes: how far t is from s
CallsMade(s, t) == (t.mRand - s.mRand + RngPeriod) % RngPeriod

\* the stream position after one element of the given weight has passed
Passed(t, weight) ==
    /\ nPositive' = IF t.aborted \/ weight <= 0 THEN nPositive ELSE nPositive + 1
    /\ weightOffered' = IF t.kind # "L" \/ t.aborted \/ weight <= 0
                        THEN weightOffered ELSE weightOffered + weight

\* the payload of the next stream element when its weight is the given one
NextElem(weight) == IF weight > 0 THEN nPositive + 1 ELSE IgnoredElem

\* the stream is cut after MaxStream elements of positive weight
MayPass(weight) == weight > 0 => nPositive < MaxStream

Init ==
    /\ \E c \in Kinds, n \in 0..MaxK :
          LET t == Construct(c, IF c = "L" THEN 1 ELSE n, 0) IN
          /\ n = 0 => c \in DynamicKinds
          /\ kind = t.kind
          /\ mSamplesCount = t.mSamplesCount
          /\ mIndexesToJumpOver = t.mIndexesToJumpOver
          /\ mWeightJumpOver = t.mWeightJumpOver
          /\ mRand = t.mRand
          /\ mFilledElementsCount = t.mFilledElementsCount
          /\ mElements = t.mElements
          /\ mPriorityHeap = t.mPriorityHeap
          /\ mData = t.mData
          /\ mWeightSum = t.mWeightSum
          /\ mSelectedElement = t.mSelectedElement
          /\ aborted = t.aborted
    /\ nPositive = 0
    /\ sampledOnly = TRUE
    /\ weightOffered = 0

\* ---------------------------------------------------------- operations
\* sampleElement / sampleElementEmplace of the uniform samplers; the
\* environment supplies the raw words of the generator calls the call makes
SampleElement ==
    /\ ~aborted /\ kind \in UniformKinds /\ MayPass(1)
    /\ \E ub \in UBSkip :
          \E d \in Draws(CallsMade(Self, ReservoirSampler_emplace(Self, NextElem(1), NoDraws, ub))) :
             LET t == IF kind = "US"
                      THEN ReservoirSamplerStatic_emplace(Self, NextElem(1), d, ub)
                      ELSE ReservoirSampler_emplace(Self, NextElem(1), d, ub) IN
             /\ Commit(t)
             /\ Passed(t, 1)
    /\ UNCHANGED sampledOnly

SkipNextElement ==
    /\ ~aborted /\ kind \in UniformKinds /\ MayPass(1)
    /\ LET t == skipNextElement(Self) IN
          /\ Commit(t)
          /\ Passed(t, 1)
    /\ sampledOnly' = FALSE

JumpAhead ==
    /\ ~aborted /\ kind \in UniformKinds
    /\ \E n \in 0..MaxJump :
          /\ nPositive + n <= MaxStream
          /\ LET t == jumpAhead(Self, n) IN
                /\ Commit(t)
                /\ nPositive' = IF t.aborted THEN nPositive ELSE nPositive + n
    /\ sampledOnly' = FALSE
    /\ UNCHANGED weightOffered

\* sampleElement / sampleElementEmplace of the weighted samplers
SampleElementWeighted ==
    /\ ~aborted /\ kind \in WeightedKinds
    /\ \E weight \in Weights :
          /\ MayPass(weight)
          /\ \E d \in Draws(CallsMade(Self, ReservoirSamplerWeighted_emplace(Self, weight, NextElem(weight), NoDraws))) :
                LET t == IF kind = "WS"
                         THEN ReservoirSamplerWeightedStatic_emplace(Self, weight, NextElem(weight), d, FloatStep)
                         ELSE ReservoirSamplerWeighted_emplace(Self, weight, NextElem(weight), d) IN
                /\ Commit(t)
                /\ Passed(t, weight)
    /\ UNCHANGED sampledOnly

\* skipNextElement(weight); a negative weight raises the budget, which the
\* model lets grow up to MaxBudget
SkipNextElementWeighted ==
    /\ ~aborted /\ kind \in WeightedKinds
    /\ \E weight \in Weights :
          /\ MayPass(weight)
          /\ weight < 0 => mWeightJumpOver.v < MaxBudget * FloatDen
          /\ LET t == skipNextElementW(Self, weight) IN
                /\ Commit(t)
                /\ Passed(t, weight)
    /\ sampledOnly' = FALSE

SampleElementLinear ==
    /\ ~aborted /\ kind = "L"
    /\ \E weight \in LinearWeights :
          /\ MayPass(weight)
          /\ \E d \in Draws(CallsMade(Self, ReservoirSamplerLinear_emplace(Self, weight, NextElem(weight), 0))) :
                LET t == ReservoirSamplerLinear_emplace(Self, weight, NextElem(weight), d[1]) IN
                /\ Commit(t)
                /\ Passed(t, weight)
    /\ UNCHANGED sampledOnly

\* allocateData(); the allocator returns a buffer or a null pointer
AllocateData ==
    /\ ~aborted /\ kind \in DynamicKinds
    /\ \E ok \in BOOLEAN : Commit(allocateDataGiven(Self, ok))
    /\ UNCHANGED <<nPositive, sampledOnly, weightOffered>>

\* getResult returns a view and writes nothing
GetResult ==
    /\ ~aborted
    /\ Commit(AfterGetResult(Self))
    /\ UNCHANGED ghostVars

ConsumeResult ==
    /\ ~aborted
    /\ Commit(IF kind = "L" THEN consumeResultL(Self).st ELSE consumeResult(Self).st)
    /\ nPositive' = 0
    /\ sampledOnly' = FALSE
    /\ weightOffered' = 0

Reset ==
    /\ ~aborted
    /\ Commit(IF kind = "L" THEN resetL(Self) ELSE reset(Self))
    /\ nPositive' = 0
    /\ sampledOnly' = FALSE
    /\ weightOffered' = 0

Next ==
    \/ SampleElement
    \/ SkipNextElement
    \/ JumpAhead
    \/ SampleElementWeighted
    \/ SkipNextElementWeighted
    \/ SampleElementLinear
    \/ AllocateData
    \/ GetResult
    \/ ConsumeResult
    \/ Reset

Spec == Init /\ [][Next]_vars

\* ------------------- the first revision of ReservoirSamplerWeighted alone
InitOld ==
    /\ \E n \in 0..MaxK :
          LET t == ConstructOld(n, 0) IN
          /\ kind = t.kind
          /\ mSamplesCount = t.mSamplesCount
          /\ mIndexesToJumpOver = t.mIndexesToJumpOver
          /\ mWeightJumpOver = t.mWeightJumpOver
          /\ mRand = t.mRand
          /\ mFilledElementsCount = t.mFilledElementsCount
          /\ mElements = t.mElements
          /\ mPriorityHeap = t.mPriorityHeap
          /\ mData = t.mData
          /\ mWeightSum = t.mWeightSum
          /\ mSelectedElement = t.mSelectedElement
          /\ aborted = t.aborted
    /\ nPositive = 0
    /\ sampledOnly = TRUE
    /\ weightOffered = 0

\* addElement / emplaceElement; a call that leaves the buffer has undefined
\* behaviour and the run is not followed beyond it
AddElementOld ==
    /\ ~aborted
    /\ \E weight \in Weights :
          /\ MayPass(weight)
          /\ \E d \in Draws(CallsMade(Self, emplaceElement(Self, weight, NextElem(weight), NoDraws))) :
                LET t == emplaceElement(Self, weight, NextElem(weight), d) IN
                /\ ~t.oob
                /\ Commit(t)
                /\ Passed(t, weight)
    /\ UNCHANGED sampledOnly

AddDummyElementOld ==
    /\ ~aborted
    /\ \E weight \in Weights :
          /\ MayPass(weight)
          /\ weight < 0 => mWeightJumpOver.v < MaxBudget * FloatDen
          /\ LET t == addDummyElement(Self, weight) IN
                /\ Commit(t)
                /\ Passed(t, weight)
    /\ sampledOnly' = FALSE

AllocateDataOld ==
    /\ ~aborted
    /\ Commit(allocateData(Self))
    /\ UNCHANGED <<nPositive, sampledOnly, weightOffered>>

\* reset, and consumeResult, which repeats the statements of reset
ResetOld ==
    /\ ~aborted
    /\ Commit(reset(Self))
    /\ nPositive' = 0
    /\ sampledOnly' = FALSE
    /\ weightOffered' = 0

NextOld ==
    \/ AddElementOld
    \/ AddDummyElementOld
    \/ AllocateDataOld
    \/ ResetOld

SpecOld == InitOld /\ [][NextOld]_vars

\* ---------------------------------------------------------------- claims
AllDraws == [1..3 -> Raw]
PositiveWeights == {w \in Weights : w > 0}

\* number of elements the result exposes
ResultSize ==
    IF kind = "L" THEN (IF getResultL(Self).has THEN 1 ELSE 0)
    ELSE Len(getResult(Self))

\* C1: on a fresh sampler fed by sample calls the result size is
\* min(n_positive, k), n_positive the number of stream elements of weight > 0
\* (every element for the uniform samplers); the filled count never exceeds k.
C1_ResultSize ==
    sampledOnly => /\ ResultSize = Min(nPositive, mSamplesCount)
                /\ mFilledElementsCount <= mSamplesCount

\* a fresh sampler of capacity >= 2 that has seen more than k elements
C1_Witness ==
    /\ sampledOnly /\ ~aborted
    /\ mSamplesCount >= 2
    /\ nPositive > mSamplesCount
    /\ ResultSize = mSamplesCount

\* the payloads the sampler retains
Retained ==
    IF kind = "L"
    THEN (IF mSelectedElement.has THEN <<mSelectedElement.val>> ELSE <<>>)
    ELSE getResult(Self)

\* C2: the retained elements are a sub-multiset of the elements offered with
\* weight > 0 since the last reset / consume.  The positive elements of the
\* stream are 1..nPositive, each offered once: every retained payload is one
\* of them and none is retained twice.
C2_RetainedSubsetOfOffered ==
    /\ \A i \in DOMAIN Retained : Retained[i] \in 1..nPositive
    /\ \A i, j \in DOMAIN Retained : i # j => Retained[i] # Retained[j]

\* the fields the peek-protocol claims compare: filled count, skip state,
\* heap, slots and position of the generator
Internal(s) ==
    <<s.mFilledElementsCount, s.mIndexesToJumpOver, s.mWeightJumpOver,
      s.mPriorityHeap, s.mElements, s.mRand, s.aborted>>

\* one step of program (2) of the weighted round trip
PeekStepWeighted(s, weight, e, d) ==
    IF willNextElementBeConsideredW(s, weight)
    THEN ReservoirSamplerWeighted_emplace(s, weight, e, d)
    ELSE skipNextElementW(s, weight)

\* C3: from every state the two programs of the weighted peek protocol
\* reach, a pair (w, e) of any weight, also zero or negative, takes
\* sampleElement(w, e) and "sampleElement if willNextElementBeConsidered(w)
\* else skipNextElement(w)" to the same internal state.
C3_WeightedPeekRoundTrip ==
    (kind \in WeightedKinds /\ ~aborted) =>
        \A weight \in Weights, d \in AllDraws :
            Internal(ReservoirSamplerWeighted_emplace(Self, weight, NextElem(weight), d))
                = Internal(PeekStepWeighted(Self, weight, NextElem(weight), d))

\* one step of the uniform peek protocol
PeekStep(s, e, d, ub) ==
    IF willNextElementBeConsidered(s)
    THEN ReservoirSampler_emplace(s, e, d, ub)
    ELSE skipNextElement(s)

\* C4: from every reachable state of a uniform sampler, sampleElement(e) and
\* "sampleElement(e) if willNextElementBeConsidered() else skipNextElement()"
\* lead to the same state (filled count, skip counter, W, slots, generator
\* position, buffer), and the skipNextElement() call is legal.
C4_UniformPeekRoundTrip ==
    (kind \in UniformKinds /\ ~aborted) =>
        \A d \in AllDraws, ub \in UBSkip :
            /\ PeekStep(Self, NextElem(1), d, ub)
                   = ReservoirSampler_emplace(Self, NextElem(1), d, ub)
            /\ ~PeekStep(Self, NextElem(1), d, ub).aborted

\* a full uniform sampler that has passed elements after it got full and
\* still has elements to skip: the next step of the protocol is a skip
C4_Witness ==
    /\ kind \in UniformKinds /\ ~aborted
    /\ mFilledElementsCount = mSamplesCount
    /\ nPositive > mSamplesCount
    /\ mIndexesToJumpOver > 0
    /\ ~willNextElementBeConsidered(Self)
    /\ skipNextElement(Self).mIndexesToJumpOver = mIndexesToJumpOver - 1

\* what a caller can observe of a sampler: everything but the buffer pointer
Observable(s) == [s EXCEPT !.mData = TRUE]

\* C5: after reset() every operation of the public interface gives what it
\* gives on a freshly constructed sampler of the same class, capacity and
\* generator state; for the dynamic samplers this includes allocateData().
C5_ResetLikeFresh ==
    ~aborted =>
        LET r == IF kind = "L" THEN resetL(Self) ELSE reset(Self)
            f == Construct(kind, mSamplesCount, mRand)
        IN /\ kind \in UniformKinds =>
                /\ \A d \in AllDraws, ub \in UBSkip :
                      Observable(ReservoirSampler_emplace(r, 1, d, ub))
                          = Observable(ReservoirSampler_emplace(f, 1, d, ub))
                /\ Observable(skipNextElement(r)) = Observable(skipNextElement(f))
                /\ \A n \in 0..MaxJump :
                      Observable(jumpAhead(r, n)) = Observable(jumpAhead(f, n))
           /\ kind \in WeightedKinds =>
                /\ \A weight \in Weights, d \in AllDraws :
                      Observable(ReservoirSamplerWeighted_emplace(r, weight, 1, d))
                          = Observable(ReservoirSamplerWeighted_emplace(f, weight, 1, d))
                /\ \A weight \in Weights :
                      Observable(skipNextElementW(r, weight))
                          = Observable(skipNextElementW(f, weight))
           /\ kind = "L" =>
                /\ \A weight \in LinearWeights, raw \in Raw :
                      ReservoirSamplerLinear_emplace(r, weight, 1, raw)
                          = ReservoirSamplerLinear_emplace(f, weight, 1, raw)
                /\ getResultL(r) = getResultL(f)
                /\ consumeResultL(r) = consumeResultL(f)
           /\ kind # "L" =>
                /\ getResult(r) = getResult(f)
                /\ consumeResult(r).ret = consumeResult(f).ret
                /\ Observable(consumeResult(r).st) = Observable(consumeResult(f).st)
           /\ kind \in DynamicKinds =>
                Observable(allocateData(r)) = Observable(allocateData(f))

\* C6: consumeResult() of the uniform and weighted samplers returns the
\* elements getResult() exposes, slots 0..filled-1 in slot order, and leaves
\* the state reset() leaves: filled = 0, skip counter and W / budget zero.
C6_ConsumeIsPeekThenReset ==
    (kind # "L" /\ ~aborted) =>
        LET c == consumeResult(Self) IN
        /\ c.ret = getResult(Self)
        /\ Len(c.ret) = mFilledElementsCount
        /\ \A i \in 1..mFilledElementsCount : c.ret[i] = mElements[i - 1]
        /\ c.st.mFilledElementsCount = 0
        /\ c.st.mIndexesToJumpOver = 0
        /\ c.st.mWeightJumpOver = Zero
        /\ \A i \in DOMAIN c.st.mElements : c.st.mElements[i] = NoElem
        /\ c.st = reset(Self)

\* a full reservoir of two or more elements with skip state set, consumed
C6_Witness ==
    /\ kind # "L" /\ ~aborted
    /\ mFilledElementsCount = mSamplesCount /\ mSamplesCount >= 2
    /\ (mIndexesToJumpOver > 0 \/ mWeightJumpOver # Zero)
    /\ Len(consumeResult(Self).ret) = mSamplesCount
    /\ consumeResult(Self).st.mFilledElementsCount = 0

\* C7: after consumeResult() the linear sampler is empty as after reset():
\* getResult() holds no value and the next element of positive weight is
\* stored without a generator call.
C7_LinearEmptyAfterConsume ==
    (kind = "L" /\ ~aborted) =>
        LET c == consumeResultL(Self).st IN
        /\ ~getResultL(c).has
        /\ c = resetL(Self)
        /\ \A weight \in {w \in LinearWeights : w > 0}, raw \in Raw :
              LET t == ReservoirSamplerLinear_emplace(c, weight, 1, raw) IN
              /\ t.mSelectedElement = [has |-> TRUE, val |-> 1]
              /\ t.mRand = c.mRand

\* C8: a sample call with weight <= 0 on a weighted or linear sampler
\* changes nothing: filled count, slots, heap, budget / weight sum,
\* generator position and the allocation state of the buffer.
C8_NonPositiveWeightFrame ==
    ~aborted =>
        /\ kind \in WeightedKinds =>
              \A weight \in {w \in Weights : w <= 0}, d \in AllDraws :
                  ReservoirSamplerWeighted_emplace(Self, weight, IgnoredElem, d) = Self
        /\ kind = "L" =>
              \A weight \in {w \in LinearWeights : w <= 0}, raw \in Raw :
                  ReservoirSamplerLinear_emplace(Self, weight, IgnoredElem, raw) = Self

\* the live heap entries
HeapRange == 0..(mFilledElementsCount - 1)

\* C9: in the weighted samplers the key at the heap root is less than or
\* equal to the key of every other entry among the first filled entries.
C9_RootKeyIsSmallest ==
    kind \in WeightedKinds =>
        \A i \in HeapRange : mPriorityHeap[0].priority <= mPriorityHeap[i].priority

\* a full heap of three entries with distinct keys in which a replacement has
\* taken place (a slot holds an element that came after the first k)
C9_Witness ==
    /\ kind \in WeightedKinds /\ ~aborted
    /\ mFilledElementsCount = mSamplesCount /\ mSamplesCount >= 3
    /\ \E i \in HeapRange : mElements[i] > mSamplesCount
    /\ mPriorityHeap[0].priority < mPriorityHeap[1].priority
    /\ mPriorityHeap[1].priority # mPriorityHeap[2].priority

\* C10: the heap holds filled <= k entries whose slot indexes are a
\* permutation of 0..filled-1, and a replacement writes the new payload to
\* the slot the evicted root entry named, the new entry taking that index.
C10_HeapIndexesArePermutation ==
    kind \in WeightedKinds =>
        /\ mFilledElementsCount <= mSamplesCount
        /\ \A i \in HeapRange : mPriorityHeap[i] # NoItem
        /\ {mPriorityHeap[i].index : i \in HeapRange} = HeapRange
        /\ \A i, j \in HeapRange : i # j => mPriorityHeap[i].index # mPriorityHeap[j].index
        /\ (mFilledElementsCount = mSamplesCount /\ ~aborted) =>
              \A weight \in PositiveWeights, d \in AllDraws :
                  LET t == ReservoirSamplerWeighted_emplace(Self, weight, NextElem(weight), d)
                      evicted == mPriorityHeap[0].index
                  IN t.mElements # mElements =>
                        /\ \A i \in HeapRange : i # evicted => t.mElements[i] = mElements[i]
                        /\ t.mElements[evicted] = NextElem(weight)
                        /\ {t.mPriorityHeap[i].index : i \in HeapRange} = HeapRange
                        /\ t.mFilledElementsCount = mSamplesCount

\* a full heap of three entries whose indexes are out of slot order, after a
\* replacement
C10_Witness ==
    /\ kind \in WeightedKinds /\ ~aborted
    /\ mFilledElementsCount = mSamplesCount /\ mSamplesCount >= 3
    /\ \E i \in HeapRange : mElements[i] > mSamplesCount
    /\ mPriorityHeap[0].index # 0

\* the heap entry that names slot i
EntryOfSlot(s, i) ==
    CHOOSE j \in 0..(s.mFilledElementsCount - 1) : s.mPriorityHeap[j].index = i

\* the slots a sample call has written: t against the current state
WrittenSlots(t) == {i \in HeapRange : t.mElements[i] # mElements[i]}

\* C11 as stated: the heap is a max-heap by key, the root holds the largest
\* key and a replacement evicts the entry with the largest key.
C11_MaxHeapByKey ==
    kind \in WeightedKinds =>
        /\ \A i \in HeapRange : mPriorityHeap[0].priority >= mPriorityHeap[i].priority
        /\ (mFilledElementsCount = mSamplesCount /\ ~aborted) =>
              \A weight \in PositiveWeights, d \in AllDraws :
                  LET t == ReservoirSamplerWeighted_emplace(Self, weight, NextElem(weight), d)
                  IN \A i \in WrittenSlots(t), j \in HeapRange :
                        mPriorityHeap[EntryOfSlot(Self, i)].priority
                            >= mPriorityHeap[j].priority

\* C11 amended: the heap is a min-heap by key: no entry has a key smaller than
\* its parent's, so the root holds the smallest key, and a replacement evicts
\* an entry with the smallest key.
C11_MinHeapByKey ==
    kind \in WeightedKinds =>
        /\ \A i \in HeapRange :
              i > 0 => mPriorityHeap[(i - 1) \div 2].priority <= mPriorityHeap[i].priority
        /\ (mFilledElementsCount = mSamplesCount /\ ~aborted) =>
              \A weight \in PositiveWeights, d \in AllDraws :
                  LET t == ReservoirSamplerWeighted_emplace(Self, weight, NextElem(weight), d)
                  IN \A i \in WrittenSlots(t), j \in HeapRange :
                        mPriorityHeap[EntryOfSlot(Self, i)].priority
                            <= mPriorityHeap[j].priority

\* a full heap of three entries, root key strictly below the largest key,
\* in which some sample call replaces an element
C11_Witness ==
    /\ kind \in WeightedKinds /\ ~aborted
    /\ mFilledElementsCount = mSamplesCount /\ mSamplesCount >= 3
    /\ \E i \in HeapRange : mPriorityHeap[0].priority < mPriorityHeap[i].priority
    /\ \E weight \in PositiveWeights, d \in AllDraws :
          WrittenSlots(ReservoirSamplerWeighted_emplace(Self, weight, NextElem(weight), d)) # {}

\* C12: a call that breaks its precondition fails its assert with the object
\* as it was: skipNextElement when the next element would be considered,
\* jumpAhead(n) with n above the skip counter, allocateData with the buffer
\* present (from allocateData or from the first sample call).
C12_AssertBeforeAnyWrite ==
    ~aborted =>
        /\ (kind \in UniformKinds /\ willNextElementBeConsidered(Self)) =>
              skipNextElement(Self) = [Self EXCEPT !.aborted = TRUE]
        /\ kind \in UniformKinds =>
              \A n \in 0..(MaxJump + HugeSkip) :
                  n > getNextSkippedElementsCount(Self) =>
                      jumpAhead(Self, n) = [Self EXCEPT !.aborted = TRUE]
        /\ kind \in WeightedKinds =>
              \A weight \in Weights :
                  willNextElementBeConsideredW(Self, weight) =>
                      skipNextElementW(Self, weight) = [Self EXCEPT !.aborted = TRUE]
        /\ (kind \in DynamicKinds /\ mData) =>
              allocateData(Self) = [Self EXCEPT !.aborted = TRUE]

\* a dynamic sampler whose buffer came from a sample call and that has then
\* failed an assert: the elements and the skip state are still in place
C12_Witness ==
    /\ aborted
    /\ kind \in DynamicKinds /\ mData
    /\ mFilledElementsCount = mSamplesCount /\ mSamplesCount >= 2
    /\ nPositive >= mSamplesCount

\* the generator is deterministic: the word of a call is a function of the
\* position of the generator; the words of the next three calls from pos
DrawsAt(f, pos) == [i \in 1..3 |-> f[(pos + i - 1) % RngPeriod]]
Tapes == [0..(RngPeriod - 1) -> Raw]

\* n consecutive skipNextElement() calls
RECURSIVE SkipTimes(_, _)
SkipTimes(s, n) == IF n = 0 THEN s ELSE SkipTimes(skipNextElement(s), n - 1)

\* sampleElement on the elements i..last-1 of a batch, one by one
RECURSIVE SampleAll(_, _, _, _, _)
SampleAll(s, i, last, f, ub) ==
    IF i >= last \/ s.aborted THEN s
    ELSE SampleAll(ReservoirSampler_emplace(s, nPositive + 1 + i, DrawsAt(f, s.mRand), ub),
                   i + 1, last, f, ub)

\* README "Skipping iterations": sampleElement(batch[i]), then
\* skipAmount = min(getNextSkippedElementsCount(), size - i - 1),
\* i += skipAmount, jumpAhead(skipAmount)
RECURSIVE BatchLoop(_, _, _, _, _)
BatchLoop(s, i, size, f, ub) ==
    IF i >= size \/ s.aborted THEN s
    ELSE LET a == ReservoirSampler_emplace(s, nPositive + 1 + i, DrawsAt(f, s.mRand), ub)
             skipAmount == Min(getNextSkippedElementsCount(a), size - i - 1)
         IN BatchLoop(jumpAhead(a, skipAmount), i + skipAmount + 1, size, f, ub)

\* C13: for the uniform samplers jumpAhead(n), 0 <= n <=
\* getNextSkippedElementsCount(), gives the state n skipNextElement() calls
\* give and the state n sampleElement calls give; the README batch loop ends
\* in the state that sampling every element of the batch gives, and none of
\* its calls fails an assert.
C13_JumpAheadIsRepeatedSkip ==
    (kind \in UniformKinds /\ ~aborted) =>
        /\ \A n \in 0..getNextSkippedElementsCount(Self) :
              /\ jumpAhead(Self, n) = SkipTimes(Self, n)
              /\ \A f \in Tapes, ub \in UBSkip :
                    jumpAhead(Self, n) = SampleAll(Self, 0, n, f, ub)
              /\ ~jumpAhead(Self, n).aborted
        /\ \A size \in 0..MaxBatch, f \in Tapes, ub \in UBSkip :
              /\ BatchLoop(Self, 0, size, f, ub) = SampleAll(Self, 0, size, f, ub)
              /\ ~BatchLoop(Self, 0, size, f, ub).aborted

\* a full uniform sampler with two or more elements to skip, and a batch in
\* which the loop jumps
C13_Witness ==
    /\ kind \in UniformKinds /\ ~aborted
    /\ mFilledElementsCount = mSamplesCount
    /\ getNextSkippedElementsCount(Self) >= 2
    /\ jumpAhead(Self, 2).mIndexesToJumpOver = mIndexesToJumpOver - 2
    /\ \E f \in Tapes, ub \in UBSkip :
          LET a == ReservoirSampler_emplace(SkipTimes(Self, mIndexesToJumpOver),
                                            nPositive + 1, DrawsAt(f, mRand), ub)
          IN a.mIndexesToJumpOver > 0

\* C14: every implementation rejects capacity 0 when the sampler is built:
\* no sampler of capacity 0 is alive, so no sample call runs on one and none
\* reads the heap root of a buffer without entries.
C14_ZeroCapacityRejected ==
    /\ mSamplesCount = 0 => aborted
    /\ (kind = "WOld" /\ ~aborted) =>
          \A weight \in Weights, d \in AllDraws :
              ~emplaceElement(Self, weight, NextElem(weight), d).oob

\* objects an assignment can have on its left side: a fresh sampler of the
\* class of the source with any generator position, and one that holds an
\* element already
Destinations ==
    LET fresh == {Construct(kind, mSamplesCount, r) : r \in 0..(RngPeriod - 1)}
    IN fresh \cup
       {IF kind \in UniformKinds THEN ReservoirSampler_emplace(f, MaxStream, NoDraws, 0)
        ELSE IF kind \in WeightedKinds THEN ReservoirSamplerWeighted_emplace(f, 1, MaxStream, NoDraws)
        ELSE ReservoirSamplerLinear_emplace(f, 1, MaxStream, 0) : f \in fresh}

\* C15: a copy (copy construction, and copy assignment where the class has
\* it) has the elements, the skip state and the generator state of the
\* source: it is the same object state, so that every later operation gives
\* the same on both.  (The source is passed by const reference.)
C15_CopyEqualsSource ==
    ~aborted =>
        /\ CopyConstruct(Self) = Self
        /\ kind \in Assignable =>
              \A dst \in Destinations : CopyAssign(dst, Self) = Self

\* the elements and the skip state of a sampler
Holdings(s) ==
    <<s.mFilledElementsCount, s.mElements, s.mPriorityHeap, s.mIndexesToJumpOver,
      s.mWeightJumpOver, s.mWeightSum, s.mSelectedElement>>

\* C16: after a move (move construction, and move assignment where the class
\* has it) the destination holds the elements and the skip state the source
\* had, and the source is an empty sampler: filled = 0, skip counter and
\* budget zero, no buffer in the dynamic classes; it is in the state of a
\* newly built sampler with its generator, so it can be sampled into again.
C16_MoveEmptiesSource ==
    ~aborted =>
        /\ LET m == MoveConstruct(Self) IN
              /\ Holdings(m.dst) = Holdings(Self)
              /\ m.dst.mData = mData
              /\ m.src = Construct(kind, mSamplesCount, mRand)
        /\ kind \in Assignable =>
              \A dst \in Destinations :
                  LET m == MoveAssign(dst, Self) IN
                  /\ Holdings(m.dst) = Holdings(Self)
                  /\ m.src = Construct(kind, mSamplesCount, mRand)
                  /\ ~m.dst.aborted

\* a full reservoir of two or more elements with skip state set is moved
\* from: the destination has the elements, the source none
C16_Witness ==
    /\ ~aborted /\ kind # "L"
    /\ mFilledElementsCount = mSamplesCount /\ mSamplesCount >= 2
    /\ (mIndexesToJumpOver > 0 \/ mWeightJumpOver # Zero)
    /\ MoveConstruct(Self).dst.mFilledElementsCount = mSamplesCount
    /\ MoveConstruct(Self).src.mFilledElementsCount = 0
    /\ MoveConstruct(Self).src.mElements # mElements

\* ---- payload lifetime: which slots each function constructs a T in
\* (placement new), destroys (~T()) or assigns to
NoEffect == [ctor |-> {}, dtor |-> {}, assign |-> {}]

\* insertInitial / insertSorted: new (mElements + mFilledElementsCount) T(...)
InsertEffect(s) == [NoEffect EXCEPT !.ctor = {s.mFilledElementsCount}]

\* replaceElement / insertSortedRemoveFirst on slot pos: mElements[pos] = ...
\* when T is assignable, else mElements[pos].~T() and placement new
ReplaceEffect(pos, assignable) ==
    IF assignable THEN [NoEffect EXCEPT !.assign = {pos}]
    ELSE [NoEffect EXCEPT !.dtor = {pos}, !.ctor = {pos}]

\* reset, consumeResult and the destructors: ~T() on the slots below filled
ResetEffect(s) == [NoEffect EXCEPT !.dtor = 0..(s.mFilledElementsCount - 1)]

\* ReservoirSampler::emplace
SampleEffect(s, d, assignable) ==
    IF s.mFilledElementsCount < s.mSamplesCount THEN InsertEffect(s)
    ELSE IF s.mIndexesToJumpOver = 0
    THEN ReplaceEffect(d[1] % s.mSamplesCount, assignable)
    ELSE NoEffect

\* an emplace that builds the payload before it looks at the weight budget
SampleEffectWeighted_Eager(s, weight, assignable) ==
    IF ~(weight > 0) THEN NoEffect
    ELSE IF s.mFilledElementsCount < s.mSamplesCount THEN InsertEffect(s)
    ELSE ReplaceEffect(pop_heap(s.mPriorityHeap, s.mSamplesCount)[s.mSamplesCount - 1].index,
                       assignable)

\* ReservoirSamplerWeighted::emplace
SampleEffectWeighted(s, weight, assignable) ==
    IF ~(weight > 0) THEN NoEffect
    ELSE IF s.mFilledElementsCount < s.mSamplesCount THEN InsertEffect(s)
    ELSE IF FLeqZero(FSubWeight(s.mWeightJumpOver, weight))
    THEN ReplaceEffect(pop_heap(s.mPriorityHeap, s.mSamplesCount)[s.mSamplesCount - 1].index,
                       assignable)
    ELSE NoEffect

\* copy and move construction into a new object, static move and the
\* assignments: a T is constructed in each slot below other's filled count
FillEffect(other) == [NoEffect EXCEPT !.ctor = 0..(other.mFilledElementsCount - 1)]

\* the slots that hold a constructed payload
Live(s) == {i \in DOMAIN s.mElements : s.mElements[i] # NoElem}

\* slots 0..filled-1 constructed, the others not
SlotsOk(s) ==
    \A i \in DOMAIN s.mElements : (i < s.mFilledElementsCount) <=> (i \in Live(s))

\* the function with effect eff takes s to t without constructing over a live
\* payload and without destroying or assigning a dead slot, and t's live
\* slots are what eff leaves
Balanced(s, t, eff) ==
    /\ eff.dtor \subseteq Live(s)
    /\ eff.assign \subseteq Live(s) \ eff.dtor
    /\ eff.ctor \cap (Live(s) \ eff.dtor) = {}
    /\ Live(t) = (Live(s) \ eff.dtor) \cup eff.ctor
    /\ SlotsOk(t)

\* C17: slots 0..filled-1 hold a constructed payload and the other slots
\* none; sample, reset, consumeResult, copy, move and the destructor
\* construct only in dead slots and destroy only live ones, and the
\* destructor destroys every live payload: each payload constructed in a slot
\* is destroyed exactly once.
C17_SlotLifetime ==
    (kind # "L" /\ ~aborted) =>
        /\ SlotsOk(Self)
        /\ kind \in UniformKinds =>
              \A d \in AllDraws, ub \in UBSkip :
                  LET t == ReservoirSampler_emplace(Self, NextElem(1), d, ub) IN
                  \A assignable \in BOOLEAN :
                      Balanced(Self, t, SampleEffect(Self, d, assignable))
        /\ kind \in WeightedKinds =>
              \A weight \in Weights, d \in Draws(2) :
                  LET t == ReservoirSamplerWeighted_emplace(Self, weight, NextElem(weight), d) IN
                  \A assignable \in BOOLEAN :
                      Balanced(Self, t, SampleEffectWeighted(Self, weight, assignable))
        \* reset, consumeResult; the destructor is reset() and free(mData)
        /\ Balanced(Self, reset(Self), ResetEffect(Self))
        /\ Balanced(Self, consumeResult(Self).st, ResetEffect(Self))
        /\ Live(reset(Self)) = {}
        \* copy construction
        /\ Balanced(Construct(kind, mSamplesCount, mRand), CopyConstruct(Self),
                    FillEffect(Self))
        \* move construction: the dynamic classes hand the payloads over
        /\ LET m == MoveConstruct(Self) IN
              IF kind \in DynamicKinds
              THEN /\ Live(m.dst) = Live(Self) /\ SlotsOk(m.dst)
                   /\ Live(m.src) = {} /\ SlotsOk(m.src)
              ELSE /\ Balanced(Construct(kind, mSamplesCount, mRand), m.dst, FillEffect(Self))
                   /\ Balanced(Self, m.src, ResetEffect(Self))
        \* assignments: reset() of the destination, then construction
        /\ kind \in Assignable =>
              \A dst \in Destinations :
                  LET r == reset(dst)
                      m == MoveAssign(dst, Self)
                  IN /\ Balanced(dst, r, ResetEffect(dst))
                     /\ Balanced(r, CopyAssign(dst, Self), FillEffect(Self))
                     /\ Balanced(r, m.dst, FillEffect(Self))
                     /\ Balanced(Self, m.src, ResetEffect(Self))

\* a full reservoir of two or more slots in which an element has been
\* replaced: dropping it destroys every slot
C17_Witness ==
    /\ kind # "L" /\ ~aborted
    /\ mFilledElementsCount = mSamplesCount /\ mSamplesCount >= 2
    /\ \E i \in Live(Self) : mElements[i] > mSamplesCount
    /\ ResetEffect(Self).dtor = Live(Self)
    /\ Live(reset(Self)) = {}

\* ReservoirSamplerLinear::emplace: the optional is slot 0
SampleEffectLinear(s, weight, raw, assignable) ==
    IF weight <= 0 THEN NoEffect
    ELSE IF ~s.mSelectedElement.has THEN [NoEffect EXCEPT !.ctor = {0}]
    ELSE IF (raw % ((s.mWeightSum + weight) % WeightModulus)) < weight
    THEN ReplaceEffect(0, assignable)
    ELSE NoEffect

\* a payload no sampler holds, offered to see where it goes
Probe == MaxStream + 2

\* the sampler holds payload e
Holds(s, e) ==
    \/ \E i \in DOMAIN s.mElements : s.mElements[i] = e
    \/ s.mSelectedElement.has /\ s.mSelectedElement.val = e

\* the number of T built from the arguments of a sampleElementEmplace call:
\* one per placement new and one per mElements[pos] = T(arguments...)
BuiltFromArguments(eff) == Cardinality(eff.ctor \cup eff.assign)

\* the payloads a sampler holds
Payloads(s) == <<s.mElements, s.mSelectedElement>>

\* C18: sampleElementEmplace builds a payload from its arguments exactly when
\* the offer is accepted (stored while filling, or as a replacement); an
\* offer dropped by the skip counter, by a positive weight budget or for a
\* weight <= 0 builds no payload, destroys none and leaves the slots alone.
C18_EmplaceBuildsOnlyWhenAccepted ==
    ~aborted =>
        /\ kind \in UniformKinds =>
              \A d \in AllDraws, ub \in UBSkip :
                  LET t == ReservoirSampler_emplace(Self, Probe, d, ub) IN
                  \A assignable \in BOOLEAN :
                      LET eff == SampleEffect(Self, d, assignable) IN
                      IF Holds(t, Probe) THEN BuiltFromArguments(eff) = 1
                      ELSE eff = NoEffect /\ Payloads(t) = Payloads(Self)
        /\ kind \in WeightedKinds =>
              \A weight \in Weights, d \in Draws(2) :
                  LET t == ReservoirSamplerWeighted_emplace(Self, weight, Probe, d) IN
                  \A assignable \in BOOLEAN :
                      LET eff == SampleEffectWeighted(Self, weight, assignable) IN
                      IF Holds(t, Probe) THEN BuiltFromArguments(eff) = 1
                      ELSE eff = NoEffect /\ Payloads(t) = Payloads(Self)
        /\ kind = "L" =>
              \A weight \in LinearWeights, raw \in Raw :
                  LET t == ReservoirSamplerLinear_emplace(Self, weight, Probe, raw) IN
                  \A assignable \in BOOLEAN :
                      LET eff == SampleEffectLinear(Self, weight, raw, assignable) IN
                      IF Holds(t, Probe) THEN BuiltFromArguments(eff) = 1
                      ELSE eff = NoEffect /\ Payloads(t) = Payloads(Self)

\* a full weighted sampler whose budget drops an offer of weight 1 and
\* accepts one of weight MaxWeight as a replacement
C18_Witness ==
    /\ kind \in WeightedKinds /\ ~aborted
    /\ mFilledElementsCount = mSamplesCount /\ mSamplesCount >= 2
    /\ ~Holds(ReservoirSamplerWeighted_emplace(Self, 1, Probe, NoDraws), Probe)
    /\ Holds(ReservoirSamplerWeighted_emplace(Self, MaxWeight, Probe, NoDraws), Probe)

\* C19: getResult() changes nothing of the sampler (slots, filled count, skip
\* state, generator, buffer) and its view has exactly filled elements, the
\* slots 0..filled-1 in order; the linear sampler's is its optional.  A later
\* operation therefore gives the same with and without the call.
C19_GetResultIsPure ==
    ~aborted =>
        /\ AfterGetResult(Self) = Self
        /\ AfterGetResult(AfterGetResult(Self)) = Self
        /\ kind # "L" =>
              /\ Len(getResult(Self)) = mFilledElementsCount
              /\ Len(getResult(Self)) <= mSamplesCount
              /\ \A i \in 1..mFilledElementsCount : getResult(Self)[i] = mElements[i - 1]
              /\ getResult(AfterGetResult(Self)) = getResult(Self)
              /\ consumeResult(AfterGetResult(Self)) = consumeResult(Self)
        /\ kind = "L" =>
              /\ getResultL(Self) = mSelectedElement
              /\ getResultL(AfterGetResult(Self)) = getResultL(Self)

\* a sampler of capacity 3 that holds two elements: the view has two
C19_Witness ==
    /\ kind # "L" /\ ~aborted
    /\ mSamplesCount = 3 /\ mFilledElementsCount = 2
    /\ Len(getResult(Self)) = 2
    /\ getResult(Self)[1] # getResult(Self)[2]

\* the call reported an error and left the object as it was
FailsCleanly(t) ==
    /\ t.aborted
    /\ ~t.oob
    /\ [t EXCEPT !.aborted = FALSE] = Self

\* C20: when the allocator returns no memory, allocateData() and a sample
\* call that allocates lazily report an error and leave the dynamic sampler
\* as it was: nothing written, filled unchanged, no slot or heap entry
\* accessed through the null buffer.
C20_FailedAllocationSurfaces ==
    (kind \in DynamicKinds /\ ~aborted /\ ~mData) =>
        /\ FailsCleanly(allocateDataGiven(Self, FALSE))
        /\ kind = "U" =>
              \A ub \in UBSkip : \A d \in AllDraws :
                 FailsCleanly(ReservoirSampler_emplaceGiven(Self, Probe, d, ub, FALSE))
        /\ kind = "W" =>
              \A weight \in Weights : \A d \in AllDraws :
                 FailsCleanly(ReservoirSamplerWeighted_emplaceGiven(Self, weight, Probe, d, FALSE))

\* the static class of the same algorithm
StaticKindOf(c) == IF c = "U" THEN "US" ELSE "WS"

\* the static sampler with the contents of the dynamic sampler s
StaticTwin(s) == [s EXCEPT !.kind = StaticKindOf(s.kind), !.mData = TRUE]

\* what the static and the dynamic class have in common: filled count, skip
\* state, generator, heap and slots (and whether an assert has failed)
Contents(s) ==
    <<s.mSamplesCount, s.mFilledElementsCount, s.mIndexesToJumpOver,
      s.mWeightJumpOver, s.mRand, s.mPriorityHeap, s.mElements, s.aborted>>

\* from equal contents, every operation leaves the static and the dynamic
\* sampler with equal contents and returns the same, with float step wide
\* in RandType
StaticMatchesDynamic(step) ==
    (kind \in DynamicKinds /\ ~aborted) =>
        LET twin == StaticTwin(Self) IN
        /\ Contents(Construct(twin.kind, mSamplesCount, mRand))
              = Contents(Construct(kind, mSamplesCount, mRand))
        /\ Contents(reset(twin)) = Contents(reset(Self))
        /\ Contents(consumeResult(twin).st) = Contents(consumeResult(Self).st)
        /\ consumeResult(twin).ret = consumeResult(Self).ret
        /\ getResult(twin) = getResult(Self)
        /\ kind = "U" =>
              /\ \A ub \in UBSkip : \A d \in AllDraws :
                    Contents(ReservoirSamplerStatic_emplace(twin, Probe, d, ub))
                       = Contents(ReservoirSampler_emplace(Self, Probe, d, ub))
              /\ willNextElementBeConsidered(twin) = willNextElementBeConsidered(Self)
              /\ getNextSkippedElementsCount(twin) = getNextSkippedElementsCount(Self)
              /\ Contents(skipNextElement(twin)) = Contents(skipNextElement(Self))
              /\ \A n \in 0..MaxJump :
                    Contents(jumpAhead(twin, n)) = Contents(jumpAhead(Self, n))
        /\ kind = "W" =>
              \A weight \in Weights :
                 /\ \A d \in Draws(2) :
                       Contents(ReservoirSamplerWeightedStatic_emplace(twin, weight, Probe, d, step))
                          = Contents(ReservoirSamplerWeighted_emplace(Self, weight, Probe, d))
                 /\ willNextElementBeConsideredW(twin, weight)
                       = willNextElementBeConsideredW(Self, weight)
                 /\ Contents(skipNextElementW(twin, weight))
                       = Contents(skipNextElementW(Self, weight))

\* C21: the static and the dynamic class of the same algorithm, started with
\* the same capacity and generator and given the same operations, hold the
\* same filled count, skip state, heap and slots after every step, whatever
\* the floating point type RandType is.
C21_StaticEqualsDynamic == \A step \in FloatSteps : StaticMatchesDynamic(step)

\* C22: while the reservoir is not full every offered element (of positive
\* weight, for the weighted samplers) goes into slot filled and the other
\* slots stay; so when sample calls alone have offered at most k such
\* elements the result is exactly these elements, the i-th in slot i, and
\* nothing for an empty stream.  An element of weight <= 0 is not stored.
C22_FillingAcceptsAll ==
    (kind # "L" /\ ~aborted) =>
        /\ (sampledOnly /\ nPositive <= mSamplesCount) =>
              /\ mFilledElementsCount = nPositive
              /\ getResult(Self) = [i \in 1..nPositive |-> i]
        /\ nPositive = 0 => getResult(Self) = <<>>
        /\ mFilledElementsCount < mSamplesCount =>
              LET n == mFilledElementsCount
                  stored(t) == /\ t.mFilledElementsCount = n + 1
                               /\ t.mElements = [mElements EXCEPT ![n] = Probe]
                               /\ getResult(t) = Append(getResult(Self), Probe)
              IN /\ kind \in UniformKinds =>
                       \A ub \in UBSkip : \A d \in Draws(2) :
                          /\ stored(ReservoirSampler_emplace(Self, Probe, d, ub))
                          /\ stored(ReservoirSamplerStatic_emplace(StaticTwin(Self), Probe, d, ub))
                 /\ kind \in WeightedKinds =>
                       \A weight \in Weights : \A d \in Draws(2) :
                          LET t == ReservoirSamplerWeighted_emplace(Self, weight, Probe, d)
                              u == ReservoirSamplerWeightedStatic_emplace(StaticTwin(Self), weight, Probe, d, FloatStep)
                          IN IF weight > 0 THEN stored(t) /\ stored(u)
                             ELSE /\ getResult(t) = getResult(Self)
                                  /\ getResult(u) = getResult(Self)

\* a weighted sampler of capacity 3 that was offered two elements of positive
\* weight, the second of which got the smaller key and became the heap root
C22_Witness ==
    /\ kind \in WeightedKinds /\ ~aborted
    /\ mSamplesCount = 3 /\ nPositive = 2 /\ sampledOnly
    /\ getResult(Self) = <<1, 2>>
    /\ mPriorityHeap[0].index = 1

\* C23: with a current element, sample(w, e) of the linear sampler with
\* w > 0 adds w to the weight sum and then replaces the current element iff
\* (rng() mod weight sum) < w: exactly w of the residues 0..sum-1 replace it,
\* and otherwise the current element stays.
C23_LinearReplacesByResidue ==
    (kind = "L" /\ ~aborted /\ mSelectedElement.has) =>
        \A weight \in LinearWeights \ {0} :
            LET sum == mWeightSum + weight
                after(raw) == ReservoirSamplerLinear_emplace(Self, weight, Probe, raw)
            IN /\ \A raw \in 0..(2 * sum - 1) :
                     /\ after(raw).mWeightSum = sum
                     /\ after(raw).mRand = Advance(mRand, 1)
                     /\ after(raw).mSelectedElement =
                           IF (raw % sum) < weight
                           THEN [has |-> TRUE, val |-> Probe]
                           ELSE mSelectedElement
               /\ Cardinality({r \in 0..(sum - 1) :
                                  after(r).mSelectedElement.val = Probe}) = weight

\* the sampler holds the first element after offers of total weight 4, so an
\* offer of weight MaxWeight replaces it for 3 of 7 residues
C23_Witness ==
    /\ kind = "L" /\ ~aborted
    /\ mSelectedElement = [has |-> TRUE, val |-> 1]
    /\ mWeightSum = MaxWeight + 1
    /\ ReservoirSamplerLinear_emplace(Self, MaxWeight, Probe, 2).mSelectedElement.val = Probe
    /\ ReservoirSamplerLinear_emplace(Self, MaxWeight, Probe, 3).mSelectedElement.val = 1

\* every ReservoirSamplerWeighted class of the sources
AllWeightedKinds == WeightedKinds \cup {"WOld"}

\* the sample call of the class of s
EmplaceOfKind(s, weight, e, d) ==
    IF s.kind = "WOld" THEN emplaceElement(s, weight, e, d)
    ELSE IF s.kind = "WS" THEN ReservoirSamplerWeightedStatic_emplace(s, weight, e, d, FloatStep)
    ELSE ReservoirSamplerWeighted_emplace(s, weight, e, d)

\* the smallest key among the first n heap entries
SmallestKey(h, n) ==
    CHOOSE p \in {h[i].priority : i \in 0..(n - 1)} :
        \A i \in 0..(n - 1) : p <= h[i].priority

\* C26: in every ReservoirSamplerWeighted class, the first revision included,
\* the entries [0, filled) are a heap after each insertion (no entry has a
\* key below its parent's), so the insertion of the k-th element leaves the
\* smallest of the k keys at the root and computes the first budget from it.
C26_FillingKeepsHeap ==
    (kind \in AllWeightedKinds /\ ~aborted) =>
        /\ \A i \in 1..(mFilledElementsCount - 1) :
              mPriorityHeap[(i - 1) \div 2].priority <= mPriorityHeap[i].priority
        /\ (mData /\ mFilledElementsCount + 1 = mSamplesCount) =>
              \A weight \in PositiveWeights : \A d \in Draws(2) :
                 LET t == EmplaceOfKind(Self, weight, Probe, d)
                     least == SmallestKey(t.mPriorityHeap, mSamplesCount)
                 IN /\ t.mFilledElementsCount = mSamplesCount
                    /\ t.mPriorityHeap[0].priority = least
                    /\ t.mWeightJumpOver = LogRatio(d[2], least)

\* the first filled heap entries name the slots 0..filled-1, each once
HeapNamesLiveSlots(s) ==
    LET n == s.mFilledElementsCount IN
    /\ {s.mPriorityHeap[i].index : i \in 0..(n - 1)} = 0..(n - 1)
    /\ \A i, j \in 0..(n - 1) :
          i # j => s.mPriorityHeap[i].index # s.mPriorityHeap[j].index

\* C27: when the construction or assignment of the payload throws inside a
\* sample call, while filling or while replacing, every slot below filled
\* still holds a constructed payload, no other slot holds one, and the heap
\* of a weighted sampler still has filled entries whose indexes are a
\* permutation of 0..filled-1.
C27_ThrowLeavesConsistent ==
    (kind # "L" /\ ~aborted) =>
        \A assignable \in BOOLEAN :
            /\ kind \in UniformKinds =>
                  \A d \in Draws(1) :
                     SlotsOk(ReservoirSampler_emplaceThrowing(Self, d, assignable))
            /\ kind \in WeightedKinds =>
                  \A weight \in PositiveWeights : \A d \in Draws(1) :
                     LET t == ReservoirSamplerWeighted_emplaceThrowing(Self, weight, d, assignable)
                     IN SlotsOk(t) /\ HeapNamesLiveSlots(t)

\* what a sampler retains: elements, filled count and skip state
RetainedState(s) ==
    <<s.mElements, s.mFilledElementsCount, s.mIndexesToJumpOver,
      s.mWeightJumpOver, s.mPriorityHeap, s.mSelectedElement, s.mWeightSum>>

\* C28: for the classes with assignment operators, s = s and s = std::move(s)
\* leave the retained elements, the filled count and the skip state as they
\* were (the linear sampler: s = std::move(s)).
C28_SelfAssignmentHarmless ==
    (kind \in Assignable /\ ~aborted) =>
        /\ kind # "L" => RetainedState(CopyAssignSelf(Self)) = RetainedState(Self)
        /\ RetainedState(MoveAssignSelf(Self)) = RetainedState(Self)

\* C29: in the weighted samplers the weight budget is zero in every
\* reachable state in which the reservoir is not full, whatever the signs of
\* the weights passed to sample, peek and skip.
C29_BudgetZeroWhileFilling ==
    (kind \in WeightedKinds /\ ~aborted /\ mFilledElementsCount < mSamplesCount) =>
        mWeightJumpOver = Zero

\* WeightType against RandType.  A weight is given in units of
\* 1 / (FloatDen * step): step is 1 when every WeightType value is a RandType
\* value (float and float, the default template arguments) and larger when
\* WeightType is the wider type (double weights, float RandType)
WeightSteps == {1, 3}

\* static_cast<RandType>(weight), rounded to nearest, in units of 1 / FloatDen
CastToRandType(wf, step) == (2 * wf + step) \div (2 * step)

\* willNextElementBeConsidered(weight): (mWeightJumpOver - weight) <= 0,
\* the difference taken in the wider of the two types
willNextElementBeConsideredGiven(s, wf, step) ==
    \/ s.mWeightJumpOver.cls = "ninf"
    \/ s.mWeightJumpOver.cls = "fin" /\ s.mWeightJumpOver.v * step - wf <= 0

\* mWeightJumpOver -= static_cast<RandType>(weight), of emplace and of
\* skipNextElement
BudgetAfter(s, wf, step) ==
    IF s.mWeightJumpOver.cls = "fin"
    THEN Fin(s.mWeightJumpOver.v - CastToRandType(wf, step))
    ELSE s.mWeightJumpOver

\* the full branch of emplace replaces: if (mWeightJumpOver <= 0) after the
\* subtraction
ReplacesGiven(s, wf, step) == FLeqZero(BudgetAfter(s, wf, step))

\* the peek of a full sampler answers what the sample call does, for weights
\* step times finer than RandType
PeekMatchesSample(step) ==
    (kind \in WeightedKinds /\ ~aborted /\ mFilledElementsCount = mSamplesCount) =>
        /\ \A weight \in PositiveWeights : \A d \in Draws(2) :
              LET t == EmplaceOfKind(Self, weight, Probe, d)
                  considered == willNextElementBeConsideredW(Self, weight)
              IN /\ considered <=> Holds(t, Probe)
                 /\ considered = willNextElementBeConsideredGiven(Self, weight * FloatDen, 1)
                 /\ considered = ReplacesGiven(Self, weight * FloatDen, 1)
                 /\ ~considered =>
                       /\ t = skipNextElementW(Self, weight)
                       /\ ~t.aborted
                       /\ t = [Self EXCEPT !.mWeightJumpOver = FSubWeight(@, weight)]
                       /\ t.mWeightJumpOver = BudgetAfter(Self, weight * FloatDen, 1)
        /\ \A wf \in 1..(MaxWeight * FloatDen * step) :
              willNextElementBeConsideredGiven(Self, wf, step)
                 <=> ReplacesGiven(Self, wf, step)

\* C30: once a weighted sampler is full, for every weight w > 0,
\* willNextElementBeConsidered(w) is true iff the next sampleElement(w, e)
\* replaces an element, and when it is false sampleElement(w, e) does what
\* skipNextElement(w) does: the budget goes down by w, nothing else changes.
C30_PeekAnswersForSample == \A step \in WeightSteps : PeekMatchesSample(step)

\* emplace of the uniform class the object belongs to
UniformEmplace(s, e, d, ub) ==
    IF s.kind = "US" THEN ReservoirSamplerStatic_emplace(s, e, d, ub)
    ELSE ReservoirSampler_emplace(s, e, d, ub)

\* the call has run replaceElement: payload e sits in a slot of the full
\* reservoir
Replaces(s, t, e) ==
    /\ s.mFilledElementsCount = s.mSamplesCount
    /\ \E i \in DOMAIN t.mElements : t.mElements[i] = e /\ s.mElements[i] # e

\* the states one offer of m elements leads to: sampleElement (m = 1, any
\* payload, any draws), skipNextElement (m = 1), jumpAhead(m)
OfferOutcomes(s, m) ==
    {jumpAhead(s, m)}
    \cup (IF m = 1
          THEN {skipNextElement(s)}
               \cup {UniformEmplace(s, Probe, d, ub) : d \in AllDraws, ub \in UBSkip}
          ELSE {})

\* the next n elements of the stream, offered in any of the three ways, leave
\* the slots as they are and fail no assert, and the element after them, given
\* to sampleElement, replaces an incumbent
RECURSIVE QuietThenAccepted(_, _)
QuietThenAccepted(s, n) ==
    IF n = 0
    THEN \A d \in AllDraws, ub \in UBSkip :
            Replaces(s, UniformEmplace(s, Probe, d, ub), Probe)
    ELSE \A m \in 1..n : \A t \in OfferOutcomes(s, m) :
            /\ ~t.aborted
            /\ t.mElements = s.mElements
            /\ t.mFilledElementsCount = s.mFilledElementsCount
            /\ QuietThenAccepted(t, n - m)

\* C31: in the Sampling phase of a uniform sampler
\* willNextElementBeConsidered() is true exactly when the next sampleElement
\* call replaces an incumbent, and with getNextSkippedElementsCount() = s the
\* next s offers, made by sampleElement, skipNextElement or jumpAhead in any
\* mix, leave the reservoir unchanged and the offer after them, made by
\* sampleElement, is accepted.
C31_SkipCountForetellsAcceptance ==
    (kind \in UniformKinds /\ ~aborted /\ mFilledElementsCount = mSamplesCount) =>
        /\ \A d \in AllDraws, ub \in UBSkip :
              willNextElementBeConsidered(Self)
                  <=> Replaces(Self, UniformEmplace(Self, Probe, d, ub), Probe)
        /\ QuietThenAccepted(Self, getNextSkippedElementsCount(Self))

\* a full uniform sampler of capacity >= 2 whose last acceptance left two or
\* more elements to skip
C31_Witness ==
    /\ kind \in UniformKinds /\ ~aborted
    /\ mFilledElementsCount = mSamplesCount /\ mSamplesCount >= 2
    /\ nPositive > mSamplesCount
    /\ getNextSkippedElementsCount(Self) >= 2
    /\ ~willNextElementBeConsidered(Self)

\* a uniform sampler that is not full has nothing to skip: the peek answers
\* true, and skipNextElement() and every jumpAhead(n), n >= 1, fail their assert
NothingToSkipWhileFilling(s) ==
    s.mFilledElementsCount < s.mSamplesCount =>
        /\ s.mIndexesToJumpOver = 0
        /\ willNextElementBeConsidered(s)
        /\ skipNextElement(s).aborted
        /\ \A n \in 1..MaxJump : jumpAhead(s, n).aborted

\* C32: in the uniform samplers the skip counter is zero in every reachable
\* state with filled < k (fresh, after reset, after consumeResult, moved-from,
\* copied, and throughout Filling), so willNextElementBeConsidered() is true
\* for every offer of the Filling phase and skipNextElement() is not legal
\* before the reservoir is full.
C32_SkipCounterZeroWhileFilling ==
    kind \in UniformKinds =>
        /\ NothingToSkipWhileFilling(Self)
        /\ ~aborted =>
              /\ NothingToSkipWhileFilling(reset(Self))
              /\ NothingToSkipWhileFilling(consumeResult(Self).st)
              /\ NothingToSkipWhileFilling(CopyConstruct(Self))
              /\ NothingToSkipWhileFilling(MoveConstruct(Self).src)
              /\ NothingToSkipWhileFilling(MoveConstruct(Self).dst)
              /\ kind \in Assignable =>
                    \A dst \in Destinations :
                        /\ NothingToSkipWhileFilling(CopyAssign(dst, Self))
                        /\ NothingToSkipWhileFilling(MoveAssign(dst, Self).dst)
                        /\ NothingToSkipWhileFilling(MoveAssign(dst, Self).src)

\* a uniform sampler of capacity >= 2 that was full, made draws, was emptied
\* and is being filled again
C32_Witness ==
    /\ kind \in UniformKinds /\ ~aborted
    /\ mSamplesCount >= 2
    /\ mFilledElementsCount > 0 /\ mFilledElementsCount < mSamplesCount
    /\ mRand # 0
    /\ mIndexesToJumpOver = 0

\* a sample call of a dynamic sampler whose lazy allocation has the given
\* outcome
DynamicEmplaceGiven(s, weight, e, d, ub, ok) ==
    IF s.kind = "U" THEN ReservoirSampler_emplaceGiven(s, e, d, ub, ok)
    ELSE ReservoirSamplerWeighted_emplaceGiven(s, weight, e, d, ok)

\* life of the buffer of a dynamic sampler when the allocator answers with
\* one of the given outcomes: a buffer exists whenever a slot is filled;
\* reset() and consumeResult() leave mData alone; allocateData() on a sampler
\* without buffer and every sample call end with the buffer allocated;
\* allocateData() on a sampler with a buffer fails its assert and a sample
\* call does not allocate again; only the moved-from object loses the buffer
BufferAllocatedOnce(outcomes) ==
    (kind \in DynamicKinds /\ ~aborted) =>
        /\ mFilledElementsCount > 0 => mData
        /\ reset(Self).mData = mData
        /\ consumeResult(Self).st.mData = mData
        /\ CopyConstruct(Self).mData = mData
        /\ MoveConstruct(Self).dst.mData = mData
        /\ ~MoveConstruct(Self).src.mData
        /\ kind = "U" => /\ skipNextElement(Self).mData = mData
                         /\ \A n \in 0..MaxJump : jumpAhead(Self, n).mData = mData
        /\ kind = "W" => \A weight \in Weights :
                             skipNextElementW(Self, weight).mData = mData
        /\ \A ok \in outcomes :
              LET t == allocateDataGiven(Self, ok) IN
              IF mData THEN t.aborted /\ t.mData ELSE t.mData
        /\ \A ok \in outcomes, weight \in Weights, d \in Draws(2), ub \in UBSkip :
              LET t == DynamicEmplaceGiven(Self, weight, NextElem(weight), d, ub, ok)
              IN /\ t.mData
                 /\ t.mFilledElementsCount > 0 => t.mData

\* C33: in the dynamic samplers the buffer is allocated at most once in the
\* life of a sampler: mData goes from null to allocated on the first sample
\* call or the first allocateData(), reset() and consumeResult() neither
\* release nor re-allocate it, it becomes null again only when the sampler is
\* moved from, and filled > 0 implies that the buffer is allocated.  The
\* allocator either returns a buffer or a null pointer.
C33_BufferAllocatedOnce == BufferAllocatedOnce(BOOLEAN)

\* the budget less weight w is strictly positive (a NaN budget is not)
LeavesBudgetPositive(s, w) ==
    \/ s.mWeightJumpOver.cls = "pinf"
    \/ s.mWeightJumpOver.cls = "fin" /\ s.mWeightJumpOver.v - w * FloatDen > 0

\* the budget less weight w
BudgetLess(s, w) ==
    IF s.mWeightJumpOver.cls = "fin"
    THEN Fin(s.mWeightJumpOver.v - w * FloatDen) ELSE s.mWeightJumpOver

EntriesBesides(h, n, i) == {h[j] : j \in {x \in 0..(n - 1) : h[x].index # i}}

\* C35: a replacement changes exactly one slot and keeps filled = k.  In the
\* uniform samplers the slot is rng() mod k, rng() the one raw word drawn for
\* it; in the weighted samplers it is the slot the heap root named before the
\* call, the heap has one entry with that index after the call and the
\* entries of the other slots are the ones it had.  All other slots keep
\* their payload.
C35_ReplacementChangesOneSlot ==
    (~aborted /\ mSamplesCount > 0 /\ mFilledElementsCount = mSamplesCount) =>
        /\ (kind \in UniformKinds /\ mIndexesToJumpOver = 0) =>
              \A d \in AllDraws, ub \in UBSkip :
                  LET t == UniformEmplace(Self, Probe, d, ub) IN
                  /\ t.mFilledElementsCount = mSamplesCount
                  /\ t.mElements = [mElements EXCEPT ![d[1] % mSamplesCount] = Probe]
                  /\ ~t.aborted
        /\ kind \in WeightedKinds =>
              \A w \in PositiveWeights, d \in Draws(2) :
                  ~LeavesBudgetPositive(Self, w) /\ mWeightJumpOver.cls # "nan" =>
                      LET t == EmplaceOfKind(Self, w, Probe, d)
                          root == mPriorityHeap[0].index
                      IN /\ t.mFilledElementsCount = mSamplesCount
                         /\ t.mElements = [mElements EXCEPT ![root] = Probe]
                         /\ Cardinality({j \in 0..(mSamplesCount - 1) :
                                            t.mPriorityHeap[j].index = root}) = 1
                         /\ EntriesBesides(t.mPriorityHeap, mSamplesCount, root)
                                = EntriesBesides(mPriorityHeap, mSamplesCount, root)
                         /\ ~t.aborted

\* a full weighted sampler of capacity >= 2 whose budget an element of weight
\* 1 exhausts and whose heap root names a slot other than slot 0: the
\* replacement writes that slot
C35_Witness ==
    /\ kind \in WeightedKinds /\ ~aborted
    /\ mFilledElementsCount = mSamplesCount /\ mSamplesCount >= 2
    /\ nPositive >= mSamplesCount
    /\ ~LeavesBudgetPositive(Self, 1) /\ mWeightJumpOver.cls # "nan"
    /\ mPriorityHeap[0].index # 0
    /\ EmplaceOfKind(Self, 1, Probe, NoDraws).mElements[mPriorityHeap[0].index] = Probe
    /\ EmplaceOfKind(Self, 1, Probe, NoDraws).mElements[0] = mElements[0]

\* the key a replacement with weight w and first draw raw writes:
\* t = pow(root key, w), U from [t, 1), r = pow(U, 1 / w)
ReplacementKey(s, w, raw) ==
    PowInv(UniformFrom(PowInt(s.mPriorityHeap[0].priority, w), raw), w)

\* C36: in the weighted samplers the key written on a replacement is greater
\* than or equal to the root key evicted, so the root key of a full heap (the
\* eviction threshold) does not decrease on a sample call; when the new key
\* equals the old root key the root key is unchanged.
C36_ThresholdNeverDecreases ==
    (kind \in WeightedKinds /\ ~aborted /\ mSamplesCount > 0
        /\ mFilledElementsCount = mSamplesCount) =>
        \A w \in PositiveWeights, d \in Draws(2) :
            LET t == EmplaceOfKind(Self, w, Probe, d)
                old == mPriorityHeap[0].priority
                r == ReplacementKey(Self, w, d[1])
            IN /\ t.mPriorityHeap[0].priority >= old
               /\ (\E i \in DOMAIN t.mElements : t.mElements[i] = Probe) =>
                     /\ r >= old
                     /\ \E j \in 0..(mSamplesCount - 1) :
                           t.mPriorityHeap[j] = [priority |-> r,
                                                 index |-> mPriorityHeap[0].index]
                     /\ r = old => t.mPriorityHeap[0].priority = old

\* a RandType value that is finite and strictly positive
PositiveFinite(x) == x.cls = "fin" /\ x.v > 0

\* every key of the first n heap entries lies strictly between 0 and 1
KeysInside(h, n) ==
    \A j \in 0..(n - 1) : h[j].priority > 0 /\ h[j].priority < FloatDen

\* C37: every key stored in the heap of a weighted sampler lies strictly
\* between 0 and 1, for every uniform draw in [0, 1) and every weight > 0, so
\* ln(root key) is strictly negative and the budget computed at the
\* transition and after each replacement is a finite positive value.
C37_KeysStrictlyInside ==
    (kind \in WeightedKinds /\ ~aborted) =>
        /\ KeysInside(mPriorityHeap, mFilledElementsCount)
        /\ \A w \in PositiveWeights, d \in Draws(2) :
              LET t == EmplaceOfKind(Self, w, Probe, d) IN
              (/\ \E i \in DOMAIN t.mElements : t.mElements[i] = Probe
               /\ t.mFilledElementsCount = t.mSamplesCount) =>
                  /\ KeysInside(t.mPriorityHeap, t.mFilledElementsCount)
                  /\ PositiveFinite(t.mWeightJumpOver)

\* the sample call reaches  mRand() % mWeightSum : the weight is positive and
\* an element is held
ModuloEvaluated(s, weight) == weight > 0 /\ s.mSelectedElement.has

\* the value mWeightSum has when the modulo is evaluated
ModuloDivisor(s, weight) == (s.mWeightSum + weight) % WeightModulus

\* the weights of the model and the one weight that makes the sum wrap to 0
WeightsAndWrap(s) == LinearWeights \cup {WeightModulus - s.mWeightSum}

\* C38: in ReservoirSamplerLinear mWeightSum is the sum of the weights > 0
\* offered since construction or the last reset() / consumeResult().  While
\* that sum fits in WeightType, mWeightSum >= weight > 0 whenever
\* mRand() % mWeightSum is evaluated and no sample call divides by zero; a
\* sum that wraps around is outside this guarantee (a wrap to 0 reaches the
\* modulo with divisor 0).
C38_WeightSumIsSumOfOffered ==
    (kind = "L" /\ ~aborted) =>
        /\ mWeightSum = weightOffered
        /\ resetL(Self).mWeightSum = 0
        /\ consumeResultL(Self).st.mWeightSum = 0
        /\ \A weight \in WeightsAndWrap(Self), raw \in Raw :
              LET t == ReservoirSamplerLinear_emplace(Self, weight, Probe, raw)
                  fits == weightOffered + weight < WeightModulus
              IN /\ fits => /\ ~t.aborted
                            /\ t.mWeightSum
                                   = weightOffered + (IF weight > 0 THEN weight ELSE 0)
                            /\ ModuloEvaluated(Self, weight) =>
                                  /\ ModuloDivisor(Self, weight) = t.mWeightSum
                                  /\ t.mWeightSum >= weight /\ weight > 0
                 /\ (~fits /\ ModuloEvaluated(Self, weight)) =>
                        /\ ModuloDivisor(Self, weight) = 0
                        /\ t.aborted

\* a linear sampler that holds an element after several offers of weight > 0,
\* the last of which evaluated the modulo
C38_Witness ==
    /\ kind = "L" /\ ~aborted
    /\ mSelectedElement.has
    /\ nPositive >= 3
    /\ mWeightSum > MaxWeight + 1
    /\ mWeightSum = weightOffered
    /\ mRand # 0

\* reset() of the class the object belongs to
ResetOfKind(s) == IF s.kind = "L" THEN resetL(s) ELSE reset(s)

\* a sample call of the class the object belongs to
SampleOfKind(s, weight, e, d, ub) ==
    IF s.kind \in UniformKinds THEN UniformEmplace(s, e, d, ub)
    ELSE IF s.kind = "L" THEN ReservoirSamplerLinear_emplace(s, weight, e, d[1])
    ELSE EmplaceOfKind(s, weight, e, d)

\* the counters have the values they have after construction
CountersInitial(s) ==
    /\ s.mFilledElementsCount = 0
    /\ s.mIndexesToJumpOver = 0
    /\ s.mWeightJumpOver = Zero
    /\ s.mWeightSum = 0
    /\ ~s.mSelectedElement.has
    /\ \A i \in DOMAIN s.mElements : s.mElements[i] = NoElem

\* C39: reset() returns every counter to its initial value in all five
\* classes: afterwards filled = 0, skip counter 0, W 0, budget 0, weight sum
\* 0 and no selected element.  The first offer after a reset (a stream element,
\* weight > 0 where there is a weight) is accepted and the peek answers true
\* for it, however large the skip counter or the budget was before the reset.
C39_ResetZeroesCounters ==
    ~aborted =>
        LET r == ResetOfKind(Self) IN
        /\ CountersInitial(r)
        /\ ~r.aborted
        /\ kind \in UniformKinds => willNextElementBeConsidered(r)
        /\ \A w \in {1, MaxWeight}, d \in Draws(2), ub \in UBSkip :
              LET t == SampleOfKind(r, w, Probe, d, ub) IN
              /\ Holds(t, Probe)
              /\ ~t.aborted
              /\ kind # "L" => t.mFilledElementsCount = 1
              /\ kind \in WeightedKinds => willNextElementBeConsideredW(r, w)

\* a full uniform sampler of capacity >= 2 with two or more elements still to
\* skip: after reset() the counter is 0 and the next element is stored
C39_Witness ==
    /\ kind \in UniformKinds /\ ~aborted
    /\ mFilledElementsCount = mSamplesCount /\ mSamplesCount >= 2
    /\ mIndexesToJumpOver >= 2
    /\ mWeightJumpOver # Zero
    /\ reset(Self).mIndexesToJumpOver = 0
    /\ UniformEmplace(reset(Self), Probe, NoDraws, 0).mElements[0] = Probe

\* C40: draws of the uniform samplers.  An accepted element that leaves the
\* reservoir below capacity calls the generator not at all; the k-th makes
\* exactly two uniform-real draws, the first for W and the second for the
\* skip counter; a replacement makes exactly one raw call, whose word modulo
\* k is the slot, and then exactly two uniform-real draws, for W and for the
\* skip counter; a discarded element makes none.
C40_UniformDrawAccounting ==
    (kind \in UniformKinds /\ ~aborted /\ mSamplesCount > 0) =>
        \A d \in AllDraws, ub \in UBSkip :
            LET t == UniformEmplace(Self, Probe, d, ub)
                k == mSamplesCount
            IN IF mFilledElementsCount + 1 < k
               THEN /\ CallsMade(Self, t) = 0
                    /\ t.mElements[mFilledElementsCount] = Probe
               ELSE IF mFilledElementsCount + 1 = k
               THEN /\ CallsMade(Self, t) = 2
                    /\ t.mElements[mFilledElementsCount] = Probe
                    /\ t.mWeightJumpOver = Fin(PowInv(d[1], k))
                    /\ t.mIndexesToJumpOver = SkipCount(d[2], PowInv(d[1], k), ub)
               ELSE IF mIndexesToJumpOver = 0
               THEN /\ CallsMade(Self, t) = 3
                    /\ t.mElements = [mElements EXCEPT ![d[1] % k] = Probe]
                    /\ t.mWeightJumpOver
                           = Fin(FMul(mWeightJumpOver.v, PowInv(d[2], k)))
                    /\ t.mIndexesToJumpOver
                           = SkipCount(d[3], t.mWeightJumpOver.v, ub)
               ELSE /\ CallsMade(Self, t) = 0
                    /\ t.mElements = mElements

\* a full uniform sampler of capacity >= 2 with nothing left to skip: the next
\* sample call replaces a slot and moves the generator by three calls
C40_Witness ==
    /\ kind \in UniformKinds /\ ~aborted
    /\ mFilledElementsCount = mSamplesCount /\ mSamplesCount >= 2
    /\ mIndexesToJumpOver = 0
    /\ nPositive >= mSamplesCount
    /\ CallsMade(Self, UniformEmplace(Self, Probe, NoDraws, 0)) = 3

====
